---- MODULE Spec2Model ----
(***************************************************************************)
(* Model of the TAMARA PLC tool interface (src/7_Tamara_Agent/plc_tool.py):*)
(* the in-memory simulator _SimClient, the typed reads and writes of       *)
(* PLCInterface, PLCTransaction with its verify-or-rollback commit, and    *)
(* the command-bit operations pulse_cmd, clear_all_cmd_bits and            *)
(* start_operation, and write_parameters_to_plc and set_machine_mode.      *)
(*                                                                         *)
(* Three specifications share the state:                                   *)
(*   SpecCmd  the command-bit operations, one transport step at a time     *)
(*   SpecTx   the with blocks of a client: transaction(), the queueing     *)
(*            methods, commit()                                            *)
(*   Spec     the operations the agent calls                               *)
(*                                                                         *)
(* Representation of Python values:                                        *)
(*   bytes              sequence of 0..255 (offset k is element k+1)       *)
(*   str                sequence of Unicode code points                    *)
(*   tag (str)          the sequence tag.split('.') of its dotted parts    *)
(*   float argument     exact rational [n |-> Int, d |-> Nat \ {0}]        *)
(*   float read back    IEEE-754 single [s, E, m] (sign, biased exponent,  *)
(*                      23-bit fraction)                                   *)
(*   float address      decimal literal [whole, tenths, isFloat]           *)
(* A raised exception is the field err # "" of an operation's result.      *)
(***************************************************************************)
EXTENDS Integers, Sequences, FiniteSets, TLC

\* ---------------------------------------------------------------------------
\* Arithmetic helpers (bit operations of Python on small non-negative ints)
\* ---------------------------------------------------------------------------

RECURSIVE Pow2(_)
Pow2(k) == IF k = 0 THEN 1 ELSE 2 * Pow2(k - 1)

RECURSIVE Log2(_)
\* floor(log2(x)) for x >= 1, i.e. x.bit_length() - 1
Log2(x) == IF x < 2 THEN 0 ELSE 1 + Log2(x \div 2)

Abs(x) == IF x < 0 THEN 0 - x ELSE x

\* bool(byte & (1 << bit))
TestBit(byte, bit) == (byte \div Pow2(bit)) % 2 = 1

\* byte | (1 << bit)
OrBit(byte, bit) == IF TestBit(byte, bit) THEN byte ELSE byte + Pow2(bit)

\* byte & ~(1 << bit)
AndNotBit(byte, bit) == IF TestBit(byte, bit) THEN byte - Pow2(bit) ELSE byte

Zeros(n) == [i \in 1..n |-> 0]

\* ---------------------------------------------------------------------------
\* Enumerations
\* ---------------------------------------------------------------------------

OperationMode == [CONVENTIONAL |-> 1, AGENTIC |-> 2]

MachineMode == [RUN |-> 2, CLEAN |-> 3, PRESSURE_TEST |-> 4]

OrgSolventID == [ETHANOL |-> 0, IPA |-> 1, ACETONE |-> 2, METHANOL |-> 3, CUSTOM |-> 4]

ModeCmds == [START |-> 0, PAUSE_PLAY |-> 1, CONFIRM |-> 2, STOP |-> 3]

Modes == {"RUN", "CLEAN", "PRESSURE_TEST"}

Cmds == {"START", "PAUSE_PLAY", "CONFIRM", "STOP"}

\* ---------------------------------------------------------------------------
\* DB_CONFIG: the whitelisted memory map
\* ---------------------------------------------------------------------------

\* an address written as a Python int literal
At(n) == [whole |-> n, tenths |-> 0, isFloat |-> FALSE]

\* an address written as a Python float literal  whole.tenths
AtBit(n, t) == [whole |-> n, tenths |-> t, isFloat |-> TRUE]

Cfg(start, type) == [db_number |-> 9, start |-> start, type |-> type, length |-> 0]

CfgStr(start, length) == [db_number |-> 9, start |-> start, type |-> "STRING", length |-> length]

CmdSection(byte) ==
    [b_START      |-> Cfg(AtBit(byte, 0), "BOOL"),
     b_PAUSE_PLAY |-> Cfg(AtBit(byte, 1), "BOOL"),
     b_CONFIRM    |-> Cfg(AtBit(byte, 2), "BOOL"),
     b_STOP       |-> Cfg(AtBit(byte, 3), "BOOL")]

DB_CONFIG ==
    [OPERATION |->
        [OPERATION_MODE |-> Cfg(At(198), "INT"),
         MACHINE_MODE   |-> Cfg(At(200), "INT"),
         CRUNCH_VALID   |-> Cfg(AtBit(202, 0), "BOOL")],
     INPUTS |->
        [r_TFR                |-> Cfg(At(204), "REAL"),
         i_FRR                |-> Cfg(At(208), "INT"),
         r_TARGET_VOLUME      |-> Cfg(At(210), "REAL"),
         r_TEMPERATURE        |-> Cfg(At(214), "REAL"),
         i_CHIP_ID            |-> Cfg(At(218), "INT"),
         i_MANIFOLD_ID        |-> Cfg(At(220), "INT"),
         i_ORG_SOLVENT_ID     |-> Cfg(At(222), "INT"),
         s_CUSTOM_ORG_SOLVENT |-> CfgStr(At(224), 16),
         r_LAB_PRESSURE       |-> Cfg(At(242), "REAL")],
     CUSTOM_SOLVENT |->
        [r_VISCOSITY    |-> Cfg(At(246), "REAL"),
         r_SENSITIVITY  |-> Cfg(At(250), "REAL"),
         r_MOLAR_VOLUME |-> Cfg(At(254), "REAL")],
     COMMANDS_RUN           |-> CmdSection(258),
     COMMANDS_CLEAN         |-> CmdSection(260),
     COMMANDS_PRESSURE_TEST |-> CmdSection(262)]

\* ---------------------------------------------------------------------------
\* Address arithmetic on float addresses
\* ---------------------------------------------------------------------------

\* int(cfg['start'])
ByteOffset(start) == start.whole

RECURSIVE DoubleRem(_, _)
\* remainder of  r * 2^k  modulo 10 : what is left of the decimal fraction
\* tenths/10 after k binary digits of it have been produced
DoubleRem(r, k) == IF k = 0 THEN r ELSE DoubleRem((2 * r) % 10, k - 1)

\* The double nearest to the literal whole.tenths lies below it iff the
\* fraction tenths/10, cut to the 52 - floor(log2(whole)) fraction bits a
\* double has left, is rounded down (round to nearest; no ties occur).
LiteralRoundsDown(start) ==
    LET rem == DoubleRem(start.tenths, 52 - Log2(start.whole))
    IN  rem # 0 /\ 2 * rem < 10

\* int((cfg['start'] % 1) * 10) : the fractional part of the stored double,
\* times ten, truncated (whole >= 4, so the product is not rounded back up)
BitOffset(start) ==
    IF ~start.isFloat THEN 0
    ELSE IF LiteralRoundsDown(start) THEN start.tenths - 1 ELSE start.tenths

\* ---------------------------------------------------------------------------
\* Codec: INT  (struct.pack('>h') / struct.unpack('>h'))
\* ---------------------------------------------------------------------------

IntMin == -32768

IntMax == 32767

\* struct.pack('>h', v) raises struct.error outside the 16-bit range
IntInRange(v) == v >= IntMin /\ v <= IntMax

\* struct.pack('>h', v): two's complement, big-endian
EncodeInt(v) ==
    LET u == v % 65536 IN <<u \div 256, u % 256>>

\* struct.unpack('>h', data)[0]
DecodeInt(data) ==
    LET u == data[1] * 256 + data[2] IN IF u >= 32768 THEN u - 65536 ELSE u

\* ---------------------------------------------------------------------------
\* Codec: REAL  (struct.pack('>f') / struct.unpack('>f'))
\* ---------------------------------------------------------------------------

Rat(n, d) == [n |-> n, d |-> d]

RECURSIVE FracBits(_, _, _, _)
\* k further binary digits of r/d (0 <= r < d): digits collected in q
FracBits(q, r, d, k) ==
    IF k = 0 THEN [q |-> q, r |-> r]
    ELSE IF 2 * r >= d THEN FracBits(2 * q + 1, 2 * r - d, d, k - 1)
                       ELSE FracBits(2 * q, 2 * r, d, k - 1)

RECURSIVE LeadingZeros(_, _, _)
\* doublings needed until r/d (0 < r < d) reaches [1, 2): minus its exponent
LeadingZeros(r, d, z) ==
    IF r >= d THEN [z |-> z, r |-> r - d] ELSE LeadingZeros(2 * r, d, z + 1)

\* round to nearest, ties to even, of  sig + r/d  (0 <= r < d)
RoundEven(sig, r, d) ==
    IF 2 * r > d \/ (2 * r = d /\ sig % 2 = 1) THEN sig + 1 ELSE sig

\* the float32 nearest to a non-zero rational of magnitude in (2^-126, 2^24):
\* unbiased exponent e and 24-bit significand sig (hidden bit included)
NearestSingle(a, d) ==
    LET ip == a \div d
        r0 == a % d
    IN  IF ip >= 1
        THEN LET e  == Log2(ip)
                 fb == FracBits(ip, r0, d, 23 - e)
                 sg == RoundEven(fb.q, fb.r, d)
             IN  IF sg = Pow2(24) THEN [e |-> e + 1, sig |-> Pow2(23)]
                                  ELSE [e |-> e, sig |-> sg]
        ELSE LET lz == LeadingZeros(r0, d, 0)
                 fb == FracBits(1, lz.r, d, 23)
                 sg == RoundEven(fb.q, fb.r, d)
             IN  IF sg = Pow2(24) THEN [e |-> 1 - lz.z, sig |-> Pow2(23)]
                                  ELSE [e |-> 0 - lz.z, sig |-> sg]

\* struct.pack('>f', v): sign, biased exponent, 23 fraction bits, big-endian
EncodeReal(v) ==
    IF v.n = 0 THEN <<0, 0, 0, 0>>
    ELSE LET ns == NearestSingle(Abs(v.n), v.d)
             s  == IF v.n < 0 THEN 1 ELSE 0
             E  == ns.e + 127
             m  == ns.sig - Pow2(23)
         IN  <<(s * 128) + (E \div 2),
               ((E % 2) * 128) + (m \div 65536),
               (m \div 256) % 256,
               m % 256>>

\* struct.unpack('>f', data)[0] as the single it denotes
DecodeReal(data) ==
    [s |-> data[1] \div 128,
     E |-> ((data[1] % 128) * 2) + (data[2] \div 128),
     m |-> ((data[2] % 128) * 65536) + (data[3] * 256) + data[4]]

RECURSIVE FracLeq(_, _, _, _)
\* p/q <= x/y for p, x >= 0 and q, y > 0, by continued fractions (no product
\* is formed, so nothing overflows)
FracLeq(p, q, x, y) ==
    LET a == p \div q
        b == x \div y
        r == p % q
        s == x % y
    IN  IF a # b THEN a < b
        ELSE IF r = 0 THEN TRUE
        ELSE IF s = 0 THEN FALSE
        ELSE FracLeq(y, s, q, r)

RECURSIVE Pow2Div(_, _, _, _)
\* quotient and remainder of 2^k by m, by doubling
Pow2Div(q, r, m, k) ==
    IF k = 0 THEN [q |-> q, r |-> r]
    ELSE IF 2 * r >= m THEN Pow2Div(2 * q + 1, 2 * r - m, m, k - 1)
                       ELSE Pow2Div(2 * q, 2 * r, m, k - 1)

Million == 1000000

IsNaN(f) == f.E = 255 /\ f.m # 0

\* abs(f) <= 1e-6 for a single f
SingleTiny(f) ==
    IF f.E = 255 THEN FALSE                      \* inf, nan
    ELSE IF f.E <= 106 THEN TRUE                 \* |f| < 2^-20 < 1e-6
    ELSE IF f.E >= 127 THEN FALSE                \* |f| >= 1
    ELSE \* |f| = M / 2^K with 24 <= K <= 43 : 2^K / M >= 10^6
         LET M  == Pow2(23) + f.m
             K  == 150 - f.E
             pd == Pow2Div(0, 1, M, K)
         IN  pd.q >= Million

\* abs(f - v) <= 1e-6 for a single f and a rational v, exactly.
\* v ranges over the values the model writes: 0, or 1/100 <= |v| < 2^23 with
\* denominator at most 100.
RealClose(f, v) ==
    IF v.n = 0 THEN SingleTiny(f)
    ELSE IF f.E = 255 THEN FALSE
    ELSE IF f.E <= 119 THEN FALSE                \* |f| < 2^-7 < |v| - 1e-6
    ELSE IF f.E >= 150 THEN FALSE                \* |f| >= 2^23 > |v| + 1e-6
    ELSE IF (f.s = 1) # (v.n < 0) THEN FALSE     \* opposite signs, both large
    ELSE LET M   == Pow2(23) + f.m
             K   == 150 - f.E                    \* |f| = M / 2^K, 1 <= K <= 30
             fi  == M \div Pow2(K)
             fp  == M % Pow2(K)
             a   == Abs(v.n)
             vi  == a \div v.d
             vr  == a % v.d
             \* |v| + 1e-6 = vi + up / den ;  |v| - 1e-6 = li + lo / den
             den == v.d * Million
             up  == vr * Million + v.d
             li  == IF vr = 0 THEN vi - 1 ELSE vi
             lo  == IF vr = 0 THEN den - v.d ELSE vr * Million - v.d
             leqUpper == fi < vi \/ (fi = vi /\ FracLeq(fp, Pow2(K), up, den))
             geqLower == fi > li \/ (fi = li /\ FracLeq(lo, den, fp, Pow2(K)))
         IN  leqUpper /\ geqLower

\* ---------------------------------------------------------------------------
\* Codec: STRING  (str.encode('utf-8') / bytes.decode('utf-8'))
\* ---------------------------------------------------------------------------

\* the UTF-8 bytes of one code point
Utf8Char(c) ==
    IF c < 128 THEN <<c>>
    ELSE IF c < 2048 THEN <<192 + (c \div 64), 128 + (c % 64)>>
    ELSE IF c < 65536 THEN <<224 + (c \div 4096), 128 + ((c \div 64) % 64), 128 + (c % 64)>>
    ELSE <<240 + (c \div 262144), 128 + ((c \div 4096) % 64),
           128 + ((c \div 64) % 64), 128 + (c % 64)>>

RECURSIVE Utf8Encode(_)
\* value.encode('utf-8')
Utf8Encode(s) == IF s = <<>> THEN <<>> ELSE Utf8Char(Head(s)) \o Utf8Encode(Tail(s))

IsCont(b) == b >= 128 /\ b < 192

\* data.decode('utf-8'): the code points, or ok = FALSE (UnicodeDecodeError).
\* A character starts at every byte that is no continuation byte; its first
\* byte tells its length.
Utf8Decode(data) ==
    LET N(b) == IF b < 128 THEN 1
                ELSE IF b >= 194 /\ b < 224 THEN 2
                ELSE IF b >= 224 /\ b < 240 THEN 3
                ELSE IF b >= 240 /\ b < 245 THEN 4
                ELSE 0
        At0(i) == IF i <= Len(data) THEN data[i] ELSE 0
        Char(i, n) ==
            IF n = 1 THEN data[i]
            ELSE IF n = 2 THEN (data[i] - 192) * 64 + (At0(i + 1) - 128)
            ELSE IF n = 3 THEN (data[i] - 224) * 4096 + (At0(i + 1) - 128) * 64
                               + (At0(i + 2) - 128)
            ELSE (data[i] - 240) * 262144 + (At0(i + 1) - 128) * 4096
                 + (At0(i + 2) - 128) * 64 + (At0(i + 3) - 128)
        Bad(c, n) == \/ n = 3 /\ (c < 2048 \/ (c >= 55296 /\ c < 57344))
                     \/ n = 4 /\ (c < 65536 \/ c > 1114111)
        \* the character that starts at i is well formed and ends where the
        \* next one starts
        Good(i, n) ==
            /\ n # 0
            /\ i + n - 1 <= Len(data)
            /\ \A k \in (i + 1)..(i + n - 1) : IsCont(data[k])
            /\ i + n > Len(data) \/ ~IsCont(data[i + n])
            /\ ~Bad(Char(i, n), n)
        Decoded(leads) ==
            IF /\ data # <<>> => ~IsCont(data[1])
               /\ \A k \in DOMAIN leads : Good(leads[k], N(data[leads[k]]))
            THEN [ok |-> TRUE,
                  s  |-> [k \in DOMAIN leads |-> Char(leads[k], N(data[leads[k]]))]]
            ELSE [ok |-> FALSE, s |-> <<>>]
    IN  Decoded(SelectSeq([i \in DOMAIN data |-> i], LAMBDA i : ~IsCont(data[i])))

\* ---------------------------------------------------------------------------
\* _SimClient: the in-memory simulator.  Every operation returns
\*   [db: the bytearray after the call, err: "" or the exception raised,
\*    val: the value returned, io: transport calls made]
\* ---------------------------------------------------------------------------

\* The bytearray self._db is held as its length and the bytes of the
\* whitelisted window WinLo..WinHi, the only bytes a tag of DB_CONFIG
\* addresses.  Below the window every byte keeps the 0 of bytearray(219);
\* above it every byte keeps what the extension that created it put there.

WinLo == 198

WinHi == 263

Win == WinLo..WinHi

\* the bytes of the literal  b'\\x00'  : backslash, 'x', '0', '0'
PadUnit == <<92, 120, 48, 48>>

\* len(self._db) after __init__ : bytearray(219)
SimInitLen == 219

\* self._db = bytearray(219)
NewDb == [len |-> SimInitLen, bytes |-> [a \in Win |-> 0]]

\* self._db.extend(b'\\x00' * n): 4 * n bytes, the unit repeated
Extend(mem, n) ==
    IF n <= 0 THEN mem
    ELSE [len   |-> mem.len + (4 * n),
          bytes |-> [a \in Win |->
                        IF a >= mem.len /\ a < mem.len + (4 * n)
                        THEN PadUnit[((a - mem.len) % 4) + 1]
                        ELSE mem.bytes[a]]]

\* self._db[a] for a < len(self._db); every extension starts at a length
\* congruent to SimInitLen modulo 4
ByteAt(mem, a) ==
    IF a \in Win THEN mem.bytes[a]
    ELSE IF a < SimInitLen THEN 0
    ELSE PadUnit[((a - SimInitLen) % 4) + 1]

Res(mem, err, val, io) == [db |-> mem, err |-> err, val |-> val, io |-> io]

\* db_write without the whitelist check
db_write_NoWhitelist(mem, db_number, start, data) ==
    LET s   == start.whole
        end == s + Len(data)
        ext == Extend(mem, end - mem.len)
    IN  Res([ext EXCEPT !.bytes = [a \in Win |->
                IF a >= s /\ a < end THEN data[a - s + 1] ELSE @[a]]],
            "", <<>>, 1)

db_write(mem, db_number, start, data) ==
    IF db_number # 9 THEN Res(mem, "PermissionError", <<>>, 1)
    ELSE IF start.isFloat THEN Res(mem, "TypeError", <<>>, 1)
    ELSE LET s   == start.whole
             end == s + Len(data)
             ext == Extend(mem, end - mem.len)
         IN  Res([ext EXCEPT !.bytes = [a \in Win |->
                     IF a >= s /\ a < end THEN data[a - s + 1] ELSE @[a]]],
                 "", <<>>, 1)

db_read(mem, db_number, start, size) ==
    IF db_number # 9 THEN Res(mem, "PermissionError", <<>>, 1)
    ELSE IF start.isFloat THEN Res(mem, "TypeError", <<>>, 1)
    ELSE LET s   == start.whole
             ext == Extend(mem, s + size - mem.len)
         IN  Res(ext, "", [i \in 1..size |-> ByteAt(ext, s + i - 1)], 1)

\* db_write_bit that stores the mask of the bit, or 0, as the whole byte
db_write_bit_WholeByte(mem, db_number, byte_offset, bit_offset, value) ==
    IF db_number # 9 THEN Res(mem, "PermissionError", <<>>, 1)
    ELSE Res([Extend(mem, byte_offset - mem.len + 1) EXCEPT
                  !.bytes[byte_offset] = IF value # 0 THEN Pow2(bit_offset) ELSE 0],
             "", <<>>, 1)

db_write_bit(mem, db_number, byte_offset, bit_offset, value) ==
    IF db_number # 9 THEN Res(mem, "PermissionError", <<>>, 1)
    ELSE LET ext == Extend(mem, byte_offset - mem.len + 1)
             current_byte == ByteAt(ext, byte_offset)
             new_byte == IF value # 0 THEN OrBit(current_byte, bit_offset)
                                      ELSE AndNotBit(current_byte, bit_offset)
         IN  Res([ext EXCEPT !.bytes[byte_offset] = new_byte], "", <<>>, 1)

db_read_bit(mem, db_number, byte_offset, bit_offset) ==
    IF db_number # 9 THEN Res(mem, "PermissionError", FALSE, 1)
    ELSE LET ext == Extend(mem, byte_offset - mem.len + 1)
         IN  Res(ext, "", TestBit(ByteAt(ext, byte_offset), bit_offset), 1)

\* ---------------------------------------------------------------------------
\* PLCInterface: typed writes and reads (simulator client, snap7 absent)
\* ---------------------------------------------------------------------------

\* the key a whole tag string is looked up by: a dotted tag is no key
Key(tag) == IF Len(tag) = 1 THEN tag[1] ELSE "."

RECURSIVE FindSection(_, _)
\* for s in [...]: if tag in DB_CONFIG[s]: section = s; break
FindSection(sections, key) ==
    IF sections = <<>> THEN ""
    ELSE IF key \in DOMAIN DB_CONFIG[Head(sections)] THEN Head(sections)
    ELSE FindSection(Tail(sections), key)

RealSections == <<"OPERATION", "INPUTS", "CUSTOM_SOLVENT">>

IntSections == <<"OPERATION", "INPUTS">>

BoolSections == <<"OPERATION", "COMMANDS_RUN", "COMMANDS_CLEAN", "COMMANDS_PRESSURE_TEST">>

_write_real(mem, tag, value) ==
    LET Write(cfg) == db_write(mem, cfg.db_number, cfg.start, EncodeReal(value))
        In(section) == IF section = "" THEN Res(mem, "ValueError", <<>>, 0)
                       ELSE Write(DB_CONFIG[section][Key(tag)])
    IN  In(FindSection(RealSections, Key(tag)))

_read_real(mem, tag) ==
    LET Unpack(r) == IF r.err # "" THEN r ELSE Res(r.db, "", DecodeReal(r.val), r.io)
        Read(cfg) == Unpack(db_read(mem, cfg.db_number, cfg.start, 4))
        In(section) == IF section = "" THEN Res(mem, "ValueError", <<>>, 0)
                       ELSE Read(DB_CONFIG[section][Key(tag)])
    IN  In(FindSection(RealSections, Key(tag)))

\* _write_int that stores a value outside the 16-bit range wrapped
_write_int_Wraps(mem, tag, value) ==
    LET Write(cfg) == db_write(mem, cfg.db_number, cfg.start, EncodeInt(value))
        In(section) == IF section = "" THEN Res(mem, "ValueError", <<>>, 0)
                       ELSE Write(DB_CONFIG[section][Key(tag)])
    IN  In(FindSection(IntSections, Key(tag)))

_write_int(mem, tag, value) ==
    LET Write(cfg) == db_write(mem, cfg.db_number, cfg.start, EncodeInt(value))
        In(section) == IF section = "" THEN Res(mem, "ValueError", <<>>, 0)
                       ELSE IF ~IntInRange(value) THEN Res(mem, "struct.error", <<>>, 0)
                       ELSE Write(DB_CONFIG[section][Key(tag)])
    IN  In(FindSection(IntSections, Key(tag)))

_read_int(mem, tag) ==
    LET Unpack(r) == IF r.err # "" THEN r ELSE Res(r.db, "", DecodeInt(r.val), r.io)
        Read(cfg) == Unpack(db_read(mem, cfg.db_number, cfg.start, 2))
        In(section) == IF section = "" THEN Res(mem, "ValueError", <<>>, 0)
                       ELSE Read(DB_CONFIG[section][Key(tag)])
    IN  In(FindSection(IntSections, Key(tag)))

\* int(cfg['start']) and int((cfg['start'] % 1) * 10) of every tag of
\* DB_CONFIG, evaluated once
BitAddress ==
    LET Of(start) == [byte_offset |-> ByteOffset(start), bit_offset |-> BitOffset(start)]
        Table(config) ==
            [s \in DOMAIN config |-> [t \in DOMAIN config[s] |-> Of(config[s][t].start)]]
    IN  Table(DB_CONFIG)

\* the tag resolution shared by _write_bool and _read_bool: the cfg of the
\* tag, or found = FALSE (ValueError: unknown tag, or a tag with two dots)
BoolCfg(tag) ==
    LET Found(config, s, t) ==
            IF s \in DOMAIN config /\ t \in DOMAIN config[s]
            THEN [found |-> TRUE, cfg |-> config[s][t], at |-> BitAddress[s][t]]
            ELSE [found |-> FALSE]
    IN  IF Len(tag) > 2 THEN [found |-> FALSE]
        ELSE Found(DB_CONFIG,
                   IF Len(tag) = 2 THEN tag[1] ELSE FindSection(BoolSections, Key(tag)),
                   IF Len(tag) = 2 THEN tag[2] ELSE Key(tag))

_write_bool(mem, tag, value) ==
    LET Write(c) ==
            IF ~c.found THEN Res(mem, "ValueError", <<>>, 0)
            ELSE db_write_bit(mem, c.cfg.db_number, c.at.byte_offset, c.at.bit_offset,
                              IF value THEN 1 ELSE 0)
    IN  Write(BoolCfg(tag))

_read_bool(mem, tag) ==
    LET Read(c) ==
            IF ~c.found THEN Res(mem, "ValueError", FALSE, 0)
            ELSE db_read_bit(mem, c.cfg.db_number, c.at.byte_offset, c.at.bit_offset)
    IN  Read(BoolCfg(tag))

\* data = bytearray(2 + max_len); data[0] = max_len; data[1] = len(value);
\* data[2:2+len(value)] = value.encode('utf-8')
StringData(value, max_len) ==
    <<max_len, Len(value)>> \o Utf8Encode(value) \o Zeros(max_len - Len(value))

_write_string(mem, tag, value, max_len) ==
    LET Write(cfg) ==
            IF cfg.type # "STRING" THEN Res(mem, "ValueError", <<>>, 0)
            ELSE IF Len(value) > max_len THEN Res(mem, "ValueError", <<>>, 0)
            ELSE IF max_len > 255 THEN Res(mem, "ValueError", <<>>, 0)
            ELSE db_write(mem, cfg.db_number, cfg.start, StringData(value, max_len))
        In(inputs) == IF Key(tag) \notin DOMAIN inputs THEN Res(mem, "ValueError", <<>>, 0)
                      ELSE Write(inputs[Key(tag)])
    IN  In(DB_CONFIG["INPUTS"])

_read_string(mem, tag) ==
    LET Decoded(data, dec) ==
            IF ~dec.ok THEN Res(data.db, "UnicodeDecodeError", <<>>, 2)
            ELSE Res(data.db, "", dec.s, 2)
        Data(data) == Decoded(data, Utf8Decode(data.val))
        Header(cfg, header) ==
            IF header.err # "" THEN header
            ELSE IF header.val[2] > 0
            THEN Data(db_read(header.db, cfg.db_number, At(cfg.start.whole + 2),
                              header.val[2]))
            ELSE Res(header.db, "", <<>>, 1)
        Read(cfg) ==
            IF cfg.type # "STRING" THEN Res(mem, "ValueError", <<>>, 0)
            ELSE Header(cfg, db_read(mem, cfg.db_number, cfg.start, 2))
        In(inputs) == IF Key(tag) \notin DOMAIN inputs THEN Res(mem, "ValueError", <<>>, 0)
                      ELSE Read(inputs[Key(tag)])
    IN  In(DB_CONFIG["INPUTS"])

\* ---------------------------------------------------------------------------
\* PLCTransaction
\* ---------------------------------------------------------------------------

\* PLCTransaction(plc): no queued write, not committed
NewTx == [writes |-> <<>>, committed |-> FALSE]

QueuedWrite(type, tag, value, max_len) ==
    [type |-> type, tag |-> tag, value |-> value, max_len |-> max_len]

\* the queueing methods return the transaction after the call and the
\* exception raised, if any; none of them touches the transport
write_real(t, tag, value) ==
    [tx |-> [t EXCEPT !.writes = Append(@, QueuedWrite("REAL", tag, value, 0))],
     err |-> ""]

write_int(t, tag, value) ==
    [tx |-> [t EXCEPT !.writes = Append(@, QueuedWrite("INT", tag, value, 0))],
     err |-> ""]

write_bool(t, tag, value) ==
    [tx |-> [t EXCEPT !.writes = Append(@, QueuedWrite("BOOL", tag, value, 0))],
     err |-> ""]

write_string(t, tag, value, max_len) ==
    IF Len(value) > max_len THEN [tx |-> t, err |-> "ValueError"]
    ELSE [tx |-> [t EXCEPT !.writes = Append(@, QueuedWrite("STRING", tag, value, max_len))],
          err |-> ""]

\* abs(actual - value) > 1e-6  (False when actual is nan)
RealFar(actual, value) == ~IsNaN(actual) /\ ~RealClose(actual, value)

\* one iteration of the "Execute all writes" loop
ExecWrite(mem, w) ==
    IF w.type = "REAL" THEN _write_real(mem, w.tag, w.value)
    ELSE IF w.type = "INT" THEN _write_int(mem, w.tag, w.value)
    ELSE IF w.type = "BOOL" THEN _write_bool(mem, w.tag, w.value)
    ELSE _write_string(mem, w.tag, w.value, w.max_len)

RECURSIVE ExecWrites(_, _, _)
\* the "Execute all writes" loop: stops at the first exception
ExecWrites(writes, mem, io) ==
    LET Then(r) == IF r.err # "" THEN [db |-> r.db, io |-> io + r.io, err |-> r.err]
                   ELSE ExecWrites(Tail(writes), r.db, io + r.io)
    IN  IF writes = <<>> THEN [db |-> mem, io |-> io, err |-> ""]
        ELSE Then(ExecWrite(mem, Head(writes)))

\* the read of the tag of a queued write by the reader of its type
ReadQueued(mem, w) ==
    IF w.type = "REAL" THEN _read_real(mem, w.tag)
    ELSE IF w.type = "INT" THEN _read_int(mem, w.tag)
    ELSE IF w.type = "BOOL" THEN _read_bool(mem, w.tag)
    ELSE _read_string(mem, w.tag)

\* a verification that reads the tag and compares nothing
VerifyWrite_NoCompare(mem, w) ==
    LET Compare(r) == [db |-> r.db, io |-> r.io, err |-> r.err, mismatch |-> FALSE]
    IN  Compare(ReadQueued(mem, w))

\* one iteration of the "Verify all writes" loop: the read, and whether
\* an error line is appended
VerifyWrite(mem, w) ==
    LET Compare(r) ==
            [db |-> r.db, io |-> r.io, err |-> r.err,
             mismatch |-> IF r.err # "" THEN FALSE
                          ELSE IF w.type = "REAL" THEN RealFar(r.val, w.value)
                          ELSE r.val # w.value]
    IN  Compare(ReadQueued(mem, w))

RECURSIVE VerifyWrites(_, _, _, _)
\* the "Verify all writes" loop: collects the tags that failed, stops at an
\* exception of a read
VerifyWrites(writes, mem, io, errors) ==
    LET Then(r) ==
            IF r.err # ""
            THEN [db |-> r.db, io |-> io + r.io, err |-> r.err, errors |-> errors]
            ELSE VerifyWrites(Tail(writes), r.db, io + r.io,
                              IF r.mismatch THEN Append(errors, Head(writes).tag)
                              ELSE errors)
    IN  IF writes = <<>> THEN [db |-> mem, io |-> io, err |-> "", errors |-> errors]
        ELSE Then(VerifyWrite(mem, Head(writes)))

Zero == Rat(0, 1)

\* the neutral value the rollback writes for a queued write
Neutral(w) ==
    IF w.type = "REAL" THEN Zero
    ELSE IF w.type = "INT" THEN 0
    ELSE IF w.type = "BOOL" THEN FALSE
    ELSE <<>>

\* a rollback of one write whose failure goes unnoticed
RollbackWrite_NeverFails(mem, w) ==
    LET Written(wr) == [db |-> wr.db, io |-> wr.io, failed |-> FALSE]
    IN  Written(ExecWrite(mem, [w EXCEPT !.value = Neutral(w)]))

\* one iteration of the rollback loop: write the neutral value, read it
\* back; failed when either raises or the value read is not neutral
RollbackWrite(mem, w) ==
    LET Checked(wr, rd) ==
            [db |-> rd.db, io |-> wr.io + rd.io, failed |-> rd.err # "" \/ rd.mismatch]
        Written(n, wr) ==
            IF wr.err # "" THEN [db |-> wr.db, io |-> wr.io, failed |-> TRUE]
            ELSE Checked(wr, VerifyWrite(wr.db, n))
        Undo(n) == Written(n, ExecWrite(mem, n))
    IN  Undo([w EXCEPT !.value = Neutral(w)])

\* a rollback that writes nothing back
Rollback_None(writes, mem, io, rollback_errors) ==
    [db |-> mem, io |-> io, rollback_errors |-> rollback_errors]

RECURSIVE Rollback(_, _, _, _)
\* the rollback loop: every queued write, whether or not it was executed
Rollback(writes, mem, io, rollback_errors) ==
    LET Then(r) ==
            IF r.failed
            THEN Rollback(Tail(writes), r.db, io + r.io,
                          Append(rollback_errors, Head(writes).tag))
            ELSE Rollback(Tail(writes), r.db, io + r.io, rollback_errors)
    IN  IF writes = <<>> THEN [db |-> mem, io |-> io, rollback_errors |-> rollback_errors]
        ELSE Then(RollbackWrite(mem, Head(writes)))

CommitResult(t, mem, io, err, cause, rollback_errors) ==
    [tx |-> t, db |-> mem, io |-> io, err |-> err, cause |-> cause,
     rollback_errors |-> rollback_errors, msg |-> ""]

\* PLCTransaction.commit: the transaction and the memory after the call,
\* the exception raised ("" when it returns), why it failed, the tags
\* whose rollback failed and the head of the message of the exception
commit(t, mem) ==
    LET RolledBack(rb, cause) ==
            [CommitResult(t, rb.db, rb.io, "ValueError", cause, rb.rollback_errors)
             EXCEPT !.msg = IF rb.rollback_errors # <<>>
                            THEN "Transaction failed"
                            ELSE "Transaction failed and rolled back successfully"]
        Finish(at, cause) ==
            IF cause = ""
            THEN CommitResult([t EXCEPT !.committed = TRUE], at.db, at.io, "", "", <<>>)
            ELSE RolledBack(Rollback(t.writes, at.db, at.io, <<>>), cause)
        Verified(vf) ==
            Finish(vf, IF vf.err # "" THEN vf.err
                       ELSE IF vf.errors # <<>> THEN "verification"
                       ELSE "")
        Executed(ex) ==
            IF ex.err # "" THEN Finish(ex, ex.err)
            ELSE Verified(VerifyWrites(t.writes, ex.db, ex.io, <<>>))
    IN  IF t.committed THEN CommitResult(t, mem, 0, "", "", <<>>)
        ELSE Executed(ExecWrites(t.writes, mem, 0))

\* ---------------------------------------------------------------------------
\* Command-bit operations.  A call is a straight line of transport steps;
\* each step is one statement of the source that reaches the transport:
\*   write         self._write_bool(tag, value)
\*   write_verify  self._write_bool(tag, value), then raise ValueError
\*                 unless self._read_bool(tag) == value
\*   verify        raise ValueError unless self._read_bool(tag) == value
\*                 (clear_all_cmd_bits: the write and its verification are
\*                 two steps, another writer of the link can act in between)
\*   queue_int     tx = PLCTransaction(self); tx.write_int(tag, value)
\*   commit        tx.commit()  (the normal exit of the with block)
\* ---------------------------------------------------------------------------

mode_map == [RUN |-> "COMMANDS_RUN", CLEAN |-> "COMMANDS_CLEAN",
             PRESSURE_TEST |-> "COMMANDS_PRESSURE_TEST"]

cmd_map == [START |-> "b_START", PAUSE_PLAY |-> "b_PAUSE_PLAY",
            CONFIRM |-> "b_CONFIRM", STOP |-> "b_STOP"]

\* mode_map.values(), in insertion order
ModeKeys == <<"COMMANDS_RUN", "COMMANDS_CLEAN", "COMMANDS_PRESSURE_TEST">>

CmdKeys == <<"b_START", "b_PAUSE_PLAY", "b_CONFIRM", "b_STOP">>

\* f"{mode_key}.{cmd_key}"
CmdTag(mode_key, cmd_key) == <<mode_key, cmd_key>>

StepOf(k, tag, value) == [k |-> k, tag |-> tag, value |-> value]

\* pulse_cmd with the target written before the other START bits are cleared
PulseSteps_SetBeforeClear(mode, cmd, value) ==
    LET mode_key == mode_map[mode]
        cmd_key  == cmd_map[cmd]
        others   == SelectSeq(ModeKeys, LAMBDA k : k # mode_key)
        excl ==
            IF cmd = "START" /\ value
            THEN [i \in 1..Len(others) |->
                     StepOf("write", CmdTag(others[i], "b_START"), FALSE)]
            ELSE IF cmd = "STOP" /\ value
            THEN <<StepOf("write", CmdTag(mode_key, "b_START"), FALSE),
                   StepOf("write", CmdTag(mode_key, "b_PAUSE_PLAY"), FALSE),
                   StepOf("write", CmdTag(mode_key, "b_CONFIRM"), FALSE)>>
            ELSE <<>>
    IN  IF cmd = "START" /\ value
        THEN <<StepOf("write_verify", CmdTag(mode_key, cmd_key), value)>> \o excl
        ELSE excl \o <<StepOf("write_verify", CmdTag(mode_key, cmd_key), value)>>

\* pulse_cmd without the START exclusivity rule
PulseSteps_NoExclusivity(mode, cmd, value) ==
    LET mode_key == mode_map[mode]
        cmd_key  == cmd_map[cmd]
        excl ==
            IF cmd = "STOP" /\ value
            THEN <<StepOf("write", CmdTag(mode_key, "b_START"), FALSE),
                   StepOf("write", CmdTag(mode_key, "b_PAUSE_PLAY"), FALSE),
                   StepOf("write", CmdTag(mode_key, "b_CONFIRM"), FALSE)>>
            ELSE <<>>
    IN  excl \o <<StepOf("write_verify", CmdTag(mode_key, cmd_key), value)>>

\* pulse_cmd without the STOP cascade
PulseSteps_NoCascade(mode, cmd, value) ==
    LET mode_key == mode_map[mode]
        cmd_key  == cmd_map[cmd]
        others   == SelectSeq(ModeKeys, LAMBDA k : k # mode_key)
        excl ==
            IF cmd = "START" /\ value
            THEN [i \in 1..Len(others) |->
                     StepOf("write", CmdTag(others[i], "b_START"), FALSE)]
            ELSE <<>>
    IN  excl \o <<StepOf("write_verify", CmdTag(mode_key, cmd_key), value)>>

\* pulse_cmd whose START also clears b_STOP of its mode
PulseSteps_StartClearsStop(mode, cmd, value) ==
    LET mode_key == mode_map[mode]
        cmd_key  == cmd_map[cmd]
        others   == SelectSeq(ModeKeys, LAMBDA k : k # mode_key)
        excl ==
            IF cmd = "START" /\ value
            THEN [i \in 1..Len(others) |->
                     StepOf("write", CmdTag(others[i], "b_START"), FALSE)]
                 \o <<StepOf("write", CmdTag(mode_key, "b_STOP"), FALSE)>>
            ELSE IF cmd = "STOP" /\ value
            THEN <<StepOf("write", CmdTag(mode_key, "b_START"), FALSE),
                   StepOf("write", CmdTag(mode_key, "b_PAUSE_PLAY"), FALSE),
                   StepOf("write", CmdTag(mode_key, "b_CONFIRM"), FALSE)>>
            ELSE <<>>
    IN  excl \o <<StepOf("write_verify", CmdTag(mode_key, cmd_key), value)>>

\* the statements of pulse_cmd(mode, cmd, value)
PulseSteps(mode, cmd, value) ==
    LET mode_key == mode_map[mode]
        cmd_key  == cmd_map[cmd]
        others   == SelectSeq(ModeKeys, LAMBDA k : k # mode_key)
        excl ==
            IF cmd = "START" /\ value
            THEN [i \in 1..Len(others) |->
                     StepOf("write", CmdTag(others[i], "b_START"), FALSE)]
            ELSE IF cmd = "STOP" /\ value
            THEN <<StepOf("write", CmdTag(mode_key, "b_START"), FALSE),
                   StepOf("write", CmdTag(mode_key, "b_PAUSE_PLAY"), FALSE),
                   StepOf("write", CmdTag(mode_key, "b_CONFIRM"), FALSE)>>
            ELSE <<>>
    IN  excl \o <<StepOf("write_verify", CmdTag(mode_key, cmd_key), value)>>

\* clear_all_cmd_bits that leaves out the last tag, COMMANDS_PRESSURE_TEST.b_STOP
ClearSteps_SkipLast ==
    [i \in 1..22 |->
        StepOf(IF i % 2 = 1 THEN "write" ELSE "verify",
               CmdTag(ModeKeys[((i - 1) \div 8) + 1],
                      CmdKeys[(((i - 1) \div 2) % 4) + 1]),
               FALSE)]

\* the statements of clear_all_cmd_bits()
ClearSteps ==
    [i \in 1..24 |->
        StepOf(IF i % 2 = 1 THEN "write" ELSE "verify",
               CmdTag(ModeKeys[((i - 1) \div 8) + 1],
                      CmdKeys[(((i - 1) \div 2) % 4) + 1]),
               FALSE)]

\* start_operation without the call of clear_all_cmd_bits
StartSteps_NoClear(mode) ==
    <<StepOf("queue_int", <<"MACHINE_MODE">>, MachineMode[mode])>>
    \o <<StepOf("write", CmdTag(mode_map[mode], "b_START"), TRUE)>>
    \o <<StepOf("commit", <<>>, FALSE)>>

\* the statements of start_operation(payload), payload.machine_mode = mode
StartSteps(mode) ==
    <<StepOf("queue_int", <<"MACHINE_MODE">>, MachineMode[mode])>>
    \o ClearSteps
    \o <<StepOf("write", CmdTag(mode_map[mode], "b_START"), TRUE)>>
    \o <<StepOf("commit", <<>>, FALSE)>>

\* the effect of one step on the memory and on the transaction of the call
ExecStep(step, mem, t) ==
    LET StepResult(m, t2, err, io, opened, closed) ==
            [db |-> m, tx |-> t2, err |-> err, io |-> io, opened |-> opened,
             closed |-> closed]
        Verified(w, r) ==
            StepResult(r.db, t,
                       IF r.err # "" THEN r.err
                       ELSE IF r.val # step.value THEN "ValueError" ELSE "",
                       w.io + r.io, FALSE, FALSE)
        Written(w) ==
            IF step.k = "write" \/ w.err # ""
            THEN StepResult(w.db, t, w.err, w.io, FALSE, FALSE)
            ELSE Verified(w, _read_bool(w.db, step.tag))
        Committed(c) == StepResult(c.db, c.tx, c.err, c.io, FALSE, TRUE)
    IN  IF step.k \in {"write", "write_verify"}
        THEN Written(_write_bool(mem, step.tag, step.value))
        ELSE IF step.k = "verify"
        THEN Verified(Res(mem, "", <<>>, 0), _read_bool(mem, step.tag))
        ELSE IF step.k = "queue_int"
        THEN StepResult(mem, write_int(NewTx, step.tag, step.value).tx, "", 0, TRUE, FALSE)
        ELSE Committed(commit(t, mem))

\* ---------------------------------------------------------------------------
\* State
\* ---------------------------------------------------------------------------

VARIABLES
    db,        \* _SimClient._db of the connected interface
    tx,        \* the PLCTransaction of the with block entered last by the
               \* client or by the call in progress
    txState,   \* "none", "open" (inside its with block), "returned" or
               \* "raised" (commit finished), "aborted" (the block raised)
    pc,        \* the number of steps the call in progress has executed
    call,      \* the call in progress, or the one that just finished
    link       \* self.client of the interface: its class, whether it is
               \* connected, and the with block the interface is used in

vars == <<db, tx, txState, pc, call, link>>

\* no call in progress and none just finished; prevStart is the mode of the
\* call finished last when that was a pulse_cmd(mode, START, True) that
\* returned; foreign tells whether a write that is not a queued write of
\* the open transaction has reached the transport since it was created
Idle(prevStart, foreign) ==
    [op |-> "none", mode |-> "", cmd |-> "", value |-> FALSE, status |-> "idle",
     io |-> 0, foreign |-> foreign, nested |-> FALSE, prevStart |-> prevStart,
     arg |-> [none |-> TRUE]]

\* self.client after __init__ has picked the transport: a _SimClient
\* ("sim") or a snap7 client ("real"), not connected; downgraded tells
\* whether connect() has replaced the real client by a simulator, closes
\* counts the calls of client.disconnect() since the client connected last,
\* block is "new" inside __init__, "body" inside a  with plc:  block,
\* "exited" after it and "none" otherwise
NewLink(use_sim) ==
    [client |-> IF use_sim THEN "sim" ELSE "real", connected |-> FALSE,
     downgraded |-> FALSE, closes |-> 0, block |-> "new"]

\* a connect that lets the failure of the real link propagate
connect_NoFallback(l, mem, outcome) ==
    IF l.client = "sim" \/ outcome = "connected"
    THEN [link |-> [l EXCEPT !.connected = TRUE, !.closes = 0], db |-> mem, err |-> "",
          attempts |-> IF l.client = "sim" THEN 0 ELSE 1, fallbacks |-> 0]
    ELSE [link |-> l, db |-> mem, err |-> "ConnectionError", attempts |-> 1,
          fallbacks |-> 0]

\* a connect that goes back to the real link once the fallback simulator
\* is asked to connect again
connect_Revert(l, mem, outcome) ==
    IF l.client = "sim" /\ ~l.downgraded
    THEN [link |-> [l EXCEPT !.connected = TRUE, !.closes = 0], db |-> mem, err |-> "",
          attempts |-> 0, fallbacks |-> 0]
    ELSE IF outcome = "connected"
    THEN [link |-> [l EXCEPT !.client = "real", !.connected = TRUE, !.closes = 0],
          db |-> mem, err |-> "", attempts |-> 1, fallbacks |-> 0]
    ELSE [link |-> [l EXCEPT !.client = "sim", !.connected = TRUE,
                             !.downgraded = TRUE, !.closes = 0],
          db |-> NewDb, err |-> "", attempts |-> 1, fallbacks |-> 1]

\* PLCInterface.connect with the client being l and the outcome of the
\* connect of a snap7 client being outcome ("connected", "raises", or
\* "unconnected": it returns and get_connected() is False); the connect of
\* a _SimClient sets _connected and cannot fail.  attempts counts the
\* connects tried on the real link, fallbacks the simulators created; the
\* memory of a simulator created by the fallback is new.
connect(l, mem, outcome) ==
    IF l.client = "sim"
    THEN [link |-> [l EXCEPT !.connected = TRUE, !.closes = 0], db |-> mem, err |-> "",
          attempts |-> 0, fallbacks |-> 0]
    ELSE IF outcome = "connected"
    THEN [link |-> [l EXCEPT !.connected = TRUE, !.closes = 0], db |-> mem, err |-> "",
          attempts |-> 1, fallbacks |-> 0]
    ELSE [link |-> [l EXCEPT !.client = "sim", !.connected = TRUE,
                             !.downgraded = TRUE, !.closes = 0],
          db |-> NewDb, err |-> "", attempts |-> 1, fallbacks |-> 1]

\* a disconnect that does not ask get_connected() first
disconnect_Unguarded(l) == [l EXCEPT !.connected = FALSE, !.closes = @ + 1]

\* PLCInterface.disconnect: client.disconnect() only when connected
disconnect(l) ==
    IF l.connected THEN [l EXCEPT !.connected = FALSE, !.closes = @ + 1] ELSE l

\* a freshly constructed PLCInterface(simulate=True): connected simulator
Init ==
    /\ db = NewDb
    /\ tx = NewTx
    /\ txState = "none"
    /\ pc = 0
    /\ call = Idle("none", FALSE)
    /\ link = [connect(NewLink(TRUE), NewDb, "connected").link EXCEPT !.block = "none"]

CallOf(op, mode, cmd, value) ==
    [op |-> op, mode |-> mode, cmd |-> cmd, value |-> value, status |-> "running",
     io |-> 0, foreign |-> call.foreign, nested |-> txState = "open",
     prevStart |-> call.prevStart, arg |-> [none |-> TRUE]]

\* the statements of the call c
Steps(c) ==
    IF c.op = "pulse_cmd" THEN PulseSteps(c.mode, c.cmd, c.value)
    ELSE IF c.op = "clear_all_cmd_bits" THEN ClearSteps
    ELSE StartSteps(c.mode)

\* a transport write issued while a transaction is inside its with block
\* by anything but the commit of that transaction
ForeignWrite(step, t, r) ==
    /\ step.k \in {"write", "write_verify"}
    /\ t = "open"
    /\ r.io > 0

\* the call c, which has executed n of its statements, executes the next
Advance(c, n) ==
    \E step \in {Steps(c)[n + 1]} :
    \E r \in {ExecStep(step, db, tx)} :
    \E t \in {IF r.opened THEN "open" ELSE txState} :
        /\ db' = r.db
        /\ tx' = r.tx
        /\ txState' = IF r.closed THEN (IF r.err = "" THEN "returned" ELSE "raised")
                      ELSE IF r.err # "" /\ t = "open" THEN "aborted"
                      ELSE t
        /\ pc' = IF r.err # "" \/ n + 1 = Len(Steps(c)) THEN 0 ELSE n + 1
        /\ call' = [c EXCEPT !.status = IF r.err # "" THEN "raised"
                                        ELSE IF n + 1 = Len(Steps(c)) THEN "returned"
                                        ELSE "running",
                             !.io = @ + r.io,
                             !.foreign = @ \/ ForeignWrite(step, t, r)]
        /\ UNCHANGED link

\* ---------------------------------------------------------------------------
\* Command operations, one transport step at a time
\* ---------------------------------------------------------------------------

pulse_cmd(mode, cmd, value) ==
    /\ call.status = "idle"
    /\ Advance(CallOf("pulse_cmd", mode, cmd, value), 0)

clear_all_cmd_bits ==
    /\ call.status = "idle"
    /\ Advance(CallOf("clear_all_cmd_bits", "", "", FALSE), 0)

start_operation(mode) ==
    /\ call.status = "idle"
    /\ Advance(CallOf("start_operation", mode, "", FALSE), 0)

\* the call in progress executes its next statement
CallStep ==
    /\ call.status = "running"
    /\ Advance(call, pc)

\* the caller takes the result of the finished call and goes on
Return ==
    /\ call.status \in {"returned", "raised"}
    /\ call' = Idle(IF call.op = "pulse_cmd" /\ call.cmd = "START" /\ call.value
                       /\ call.status = "returned"
                    THEN call.mode ELSE "none",
                    call.foreign /\ txState = "open")
    /\ UNCHANGED <<db, tx, txState, pc, link>>

NextCmd ==
    \/ \E mode \in Modes, cmd \in Cmds, value \in BOOLEAN : pulse_cmd(mode, cmd, value)
    \/ clear_all_cmd_bits
    \/ \E mode \in Modes : start_operation(mode)
    \/ CallStep
    \/ Return

SpecCmd == Init /\ [][NextCmd]_vars

\* ---------------------------------------------------------------------------
\* What a tag reads in a state (the value a read returns; the read extends
\* the bytearray of the simulator but changes no value read later)
\* ---------------------------------------------------------------------------

CmdBit(mem, mode, cmd) == _read_bool(mem, CmdTag(mode_map[mode], cmd_map[cmd])).val

IntTag(mem, name) == _read_int(mem, <<name>>).val

\* the modes whose START bit reads true
Started(mem) == {m \in Modes : CmdBit(mem, m, "START")}

\* the twelve (mode, command) pairs
CmdPairs == Modes \X Cmds

\* ---------------------------------------------------------------------------
\* Claims about the command bits (SpecCmd)
\* ---------------------------------------------------------------------------

\* C1: in every state reached by pulse_cmd, clear_all_cmd_bits and
\* start_operation calls, the states between two single-bit writes of one
\* call included, at most one mode has its START bit true.
C1_AtMostOneStart == Cardinality(Started(db)) <= 1

\* C1 witness: a pulse_cmd(mode, START, True) is between two of its writes
\* while the START bit of another mode is still true.
C1_Witness ==
    /\ call.op = "pulse_cmd" /\ call.cmd = "START" /\ call.value
    /\ call.status = "running"
    /\ \E m \in Modes : m # call.mode /\ CmdBit(db, m, "START")

\* C2: after pulse_cmd(m1, START, True) and then pulse_cmd(m2, START, True)
\* have both returned, for distinct modes m1 and m2, m1.START reads false
\* and m2.START reads true.
C2_SecondStartWins ==
    (/\ call.op = "pulse_cmd" /\ call.cmd = "START" /\ call.value
     /\ call.status = "returned"
     /\ call.prevStart \in Modes /\ call.prevStart # call.mode)
    => (/\ ~CmdBit(db, call.prevStart, "START")
        /\ CmdBit(db, call.mode, "START"))

\* C2 witness: the second of two START pulses for distinct modes returned.
C2_Witness ==
    /\ call.op = "pulse_cmd" /\ call.cmd = "START" /\ call.value
    /\ call.status = "returned"
    /\ call.prevStart \in Modes /\ call.prevStart # call.mode

\* C3: after pulse_cmd(m, STOP, True) returns, START, PAUSE_PLAY and CONFIRM
\* of m read false and STOP of m reads true.
C3_StopCascade ==
    (call.op = "pulse_cmd" /\ call.cmd = "STOP" /\ call.value /\ call.status = "returned")
    => (/\ ~CmdBit(db, call.mode, "START")
        /\ ~CmdBit(db, call.mode, "PAUSE_PLAY")
        /\ ~CmdBit(db, call.mode, "CONFIRM")
        /\ CmdBit(db, call.mode, "STOP"))

\* C3 witness: pulse_cmd(m, STOP, True) returned, and it began with
\* m.START true: the call before it was pulse_cmd(m, START, True).
C3_Witness ==
    /\ call.op = "pulse_cmd" /\ call.cmd = "STOP" /\ call.value
    /\ call.status = "returned"
    /\ call.prevStart = call.mode

\* C4: a pulse_cmd other than (START, True) and (STOP, True) sets the
\* targeted bit to value and leaves the other eleven command bits reading
\* what they read before the call.
C4_OnlyTargetBit ==
    [][(/\ call.status = "idle"
        /\ call'.op = "pulse_cmd"
        /\ ~(call'.value /\ call'.cmd \in {"START", "STOP"})
        /\ call'.status = "returned")
       => (/\ CmdBit(db', call'.mode, call'.cmd) = call'.value
           /\ \A p \in CmdPairs :
                 p # <<call'.mode, call'.cmd>>
                 => CmdBit(db', p[1], p[2]) = CmdBit(db, p[1], p[2]))]_vars

\* C12: after start_operation for a mode has returned, whatever the command
\* bits were before, the START bit of that mode reads true and the other
\* eleven command bits read false.
C12_StartOnly ==
    (call.op = "start_operation" /\ call.status = "returned")
    => \A p \in CmdPairs :
          CmdBit(db, p[1], p[2]) = (p = <<call.mode, "START">>)

\* C12 witness: start_operation returned, and it began with the START bit
\* of another mode true: the call before it was a pulse_cmd(m, START, True).
C12_Witness ==
    /\ call.op = "start_operation" /\ call.status = "returned"
    /\ call.prevStart \in Modes /\ call.prevStart # call.mode

\* C23: the tag a pulse_cmd addresses resolves to the byte of its mode (258
\* RUN, 260 CLEAN, 262 PRESSURE_TEST) and to the bit of its command (0 START,
\* 1 PAUSE_PLAY, 2 CONFIRM, 3 STOP); the twelve command tags resolve to
\* pairwise distinct (byte, bit) pairs with every bit offset in 0..7.
C23_TagAddresses ==
    call.op = "pulse_cmd"
    => LET Resolved(mode, cmd) == BoolCfg(CmdTag(mode_map[mode], cmd_map[cmd])).at
       IN  /\ Resolved(call.mode, call.cmd) =
                 [byte_offset |-> CASE call.mode = "RUN" -> 258
                                    [] call.mode = "CLEAN" -> 260
                                    [] call.mode = "PRESSURE_TEST" -> 262,
                  bit_offset |-> ModeCmds[call.cmd]]
           /\ \A p \in CmdPairs, q \in CmdPairs :
                 p # q => Resolved(p[1], p[2]) # Resolved(q[1], q[2])
           /\ \A p \in CmdPairs : Resolved(p[1], p[2]).bit_offset \in 0..7

\* ---------------------------------------------------------------------------
\* Command operations on a transport that may drop a write: the write of a
\* statement of pulse_cmd or start_operation after the first returns without
\* error and leaves the memory as it was (SpecDrop)
\* ---------------------------------------------------------------------------

\* the call in progress executes its next statement, a _write_bool, and
\* the transport drops the write; the read-back of the statement, if it
\* has one, reads the memory as it is
DropStep ==
    /\ call.status = "running"
    /\ call.op \in {"pulse_cmd", "start_operation"}
    /\ Steps(call)[pc + 1].k \in {"write", "write_verify"}
    /\ \E step \in {Steps(call)[pc + 1]} :
       \E r \in {IF step.k = "write"
                 THEN ExecStep([step EXCEPT !.value = _read_bool(db, step.tag).val], db, tx)
                 ELSE ExecStep([step EXCEPT !.k = "verify"], db, tx)} :
          /\ db' = r.db
          /\ txState' = IF r.err # "" /\ txState = "open" THEN "aborted" ELSE txState
          /\ pc' = IF r.err # "" \/ pc + 1 = Len(Steps(call)) THEN 0 ELSE pc + 1
          /\ call' = [call EXCEPT !.status = IF r.err # "" THEN "raised"
                                           ELSE IF pc + 1 = Len(Steps(call))
                                           THEN "returned"
                                           ELSE "running",
                                  !.io = @ + 1 + r.io,
                                  !.foreign = @ \/ txState = "open"]
    /\ UNCHANGED <<tx, link>>

\* tx.commit() at the end of the with block of start_operation, on a
\* transport that drops the writes of the "Execute all writes" loop: the
\* verification reads what the tags held before; when a value differs the
\* queued writes are rolled back (these writes arrive) and ValueError is
\* raised
DropCommit ==
    /\ call.status = "running"
    /\ call.op = "start_operation"
    /\ Steps(call)[pc + 1].k = "commit"
    /\ \E vf \in {VerifyWrites(tx.writes, db, Len(tx.writes), <<>>)} :
       \E rb \in {Rollback(tx.writes, vf.db, vf.io, <<>>)} :
       \E ok \in {vf.err = "" /\ vf.errors = <<>>} :
          /\ db' = IF ok THEN vf.db ELSE rb.db
          /\ tx' = IF ok THEN [tx EXCEPT !.committed = TRUE] ELSE tx
          /\ txState' = IF ok THEN "returned" ELSE "raised"
          /\ call' = [call EXCEPT !.status = IF ok THEN "returned" ELSE "raised",
                                  !.io = @ + (IF ok THEN vf.io ELSE rb.io)]
    /\ pc' = 0
    /\ UNCHANGED link

NextDrop ==
    \/ \E mode \in Modes : pulse_cmd(mode, "START", TRUE)
    \/ \E mode \in Modes : start_operation(mode)
    \/ CallStep
    \/ DropStep
    \/ DropCommit
    \/ Return

SpecDrop == Init /\ [][NextDrop]_vars

\* C22: when pulse_cmd or start_operation returns, every command bit it
\* wrote (the target, and each bit it cleared) reads the value written
\* last to it by the call, also on a transport that drops a write: a write
\* that did not take effect makes the call raise.
C22_WritesVerified ==
    (call.op \in {"pulse_cmd", "start_operation"} /\ call.status = "returned")
    => \A i \in DOMAIN Steps(call) :
          (/\ Steps(call)[i].k \in {"write", "write_verify"}
           /\ \A j \in DOMAIN Steps(call) :
                 (j > i /\ Steps(call)[j].k \in {"write", "write_verify"})
                 => Steps(call)[j].tag # Steps(call)[i].tag)
          => _read_bool(db, Steps(call)[i].tag).val = Steps(call)[i].value

\* C33: in every state reached by calls of pulse_cmd, clear_all_cmd_bits
\* and start_operation on a freshly connected simulator, no mode has both
\* b_START and b_STOP reading true.
C33_NotStartAndStop ==
    \A mode \in Modes :
        ~(/\ _read_bool(db, <<mode_map[mode], "b_START">>).val
          /\ _read_bool(db, <<mode_map[mode], "b_STOP">>).val)

\* C36: no step of pulse_cmd(mode, START, True) changes what a command bit
\* other than the three START bits reads, and no step of
\* pulse_cmd(mode, STOP, True) changes what a command bit of another mode
\* reads; hence neither does the call.
C36_RulesFrame ==
    [][(call'.op = "pulse_cmd" /\ call'.value /\ call'.status # "idle")
       => /\ call'.cmd = "START"
             => \A p \in CmdPairs :
                   p[2] # "START" => CmdBit(db', p[1], p[2]) = CmdBit(db, p[1], p[2])
          /\ call'.cmd = "STOP"
             => \A p \in CmdPairs :
                   p[1] # call'.mode => CmdBit(db', p[1], p[2]) = CmdBit(db, p[1], p[2])]_vars

\* C36 witness: pulse_cmd(mode, START, True) has returned in a state where
\* b_STOP of the mode reads true, set by a pulse_cmd before it, and b_STOP
\* of another mode reads true as well.
C36_Witness ==
    /\ call.op = "pulse_cmd" /\ call.cmd = "START" /\ call.value
    /\ call.status = "returned"
    /\ CmdBit(db, call.mode, "STOP")
    /\ \E m \in Modes \ {call.mode} : CmdBit(db, m, "STOP") /\ ~CmdBit(db, m, "START")

\* C32: when start_operation has raised because its commit failed (the
\* write of MACHINE_MODE did not pass its verification and was rolled
\* back), b_START of every mode reads false.
C32_NoModeArmed ==
    (call.op = "start_operation" /\ call.status = "raised" /\ txState = "raised")
    => \A mode \in Modes : ~_read_bool(db, <<mode_map[mode], "b_START">>).val

\* ---------------------------------------------------------------------------
\* Transactions of the client:
\*     with plc.transaction() as tx:
\*         tx.write_real(...); tx.write_int(...); ...
\* The client may call plc.set_machine_mode inside the block, and may call
\* tx.commit() again after the block has finished.
\* ---------------------------------------------------------------------------

\* the most writes the client queues in one transaction
MaxWrites == 2

\* the writes the client queues: a REAL that float32 holds exactly and one it
\* does not, an INT in range, one out of range and one for a tag that is not
\* in DB_CONFIG, a BOOL, two BOOLs whose addresses 258.1 and 258.2 give the
\* same bit offset, a STRING that fits and one longer than its maximum
QueueInputs ==
    {QueuedWrite("REAL", <<"r_TFR">>, Rat(1, 1), 0),
     QueuedWrite("REAL", <<"r_TFR">>, Rat(10001, 10), 0),
     QueuedWrite("INT", <<"i_FRR">>, 1, 0),
     QueuedWrite("INT", <<"i_FRR">>, 40000, 0),
     QueuedWrite("INT", <<"INVALID_TAG">>, 42, 0),
     QueuedWrite("BOOL", <<"COMMANDS_RUN", "b_START">>, TRUE, 0),
     QueuedWrite("BOOL", <<"COMMANDS_RUN", "b_PAUSE_PLAY">>, FALSE, 0),
     QueuedWrite("BOOL", <<"COMMANDS_RUN", "b_CONFIRM">>, TRUE, 0),
     QueuedWrite("STRING", <<"s_CUSTOM_ORG_SOLVENT">>, <<97, 98>>, 16),
     QueuedWrite("STRING", <<"s_CUSTOM_ORG_SOLVENT">>, [i \in 1..17 |-> 97], 16)}

\* a call that ran as one step has finished: r is its result
Finished(c, r, t, state) ==
    /\ db' = r.db
    /\ tx' = t
    /\ txState' = state
    /\ pc' = 0
    /\ call' = [c EXCEPT !.status = IF r.err # "" THEN "raised" ELSE "returned",
                         !.io = r.io,
                         !.foreign = @ \/ (c.nested /\ r.io > 0)]
    /\ UNCHANGED link

\* with plc.transaction() as tx: the block is entered
transaction ==
    /\ call.status = "idle"
    /\ txState # "open"
    /\ Finished([CallOf("transaction", "", "", FALSE) EXCEPT !.foreign = FALSE],
                Res(db, "", <<>>, 0), NewTx, "open")

\* a queueing method that performs its write at once
TxWrite_Eager(w) ==
    /\ call.status = "idle"
    /\ txState = "open"
    /\ Len(tx.writes) < MaxWrites
    /\ \E q \in {IF w.type = "STRING" THEN write_string(tx, w.tag, w.value, w.max_len)
                 ELSE write_int(tx, w.tag, w.value)} :
       \E r \in {ExecWrite(db, w)} :
          Finished([CallOf("write", "", "", FALSE) EXCEPT !.nested = FALSE],
                   Res(r.db, q.err, <<>>, r.io), [q.tx EXCEPT !.writes = Append(tx.writes, w)],
                   IF q.err # "" THEN "aborted" ELSE "open")

\* tx.write_real / write_int / write_bool / write_string inside the block;
\* an exception leaves the block without a commit
TxWrite(w) ==
    /\ call.status = "idle"
    /\ txState = "open"
    /\ Len(tx.writes) < MaxWrites
    /\ \E q \in {IF w.type = "REAL" THEN write_real(tx, w.tag, w.value)
                 ELSE IF w.type = "INT" THEN write_int(tx, w.tag, w.value)
                 ELSE IF w.type = "BOOL" THEN write_bool(tx, w.tag, w.value)
                 ELSE write_string(tx, w.tag, w.value, w.max_len)} :
          Finished([CallOf("write", "", "", FALSE) EXCEPT !.nested = FALSE],
                   Res(db, q.err, <<>>, 0), q.tx,
                   IF q.err # "" THEN "aborted" ELSE "open")

\* tx.commit(), called by the name op
Commit(op) ==
    \E c \in {commit(tx, db)} :
        Finished([CallOf(op, "", "", FALSE) EXCEPT
                      !.nested = FALSE,
                      !.arg = [cause |-> c.cause, rollback_errors |-> c.rollback_errors,
                               msg |-> c.msg]],
                 c, c.tx, IF c.err # "" THEN "raised" ELSE "returned")

\* the block is left normally: transaction() calls tx.commit()
TxExit ==
    /\ call.status = "idle"
    /\ txState = "open"
    /\ Commit("commit")

\* the client calls tx.commit() on a transaction whose commit has finished
Recommit ==
    /\ call.status = "idle"
    /\ txState \in {"returned", "raised"}
    /\ Commit("recommit")

\* plc.set_machine_mode(mode): a transaction of its own, from creation to
\* commit, whether or not a transaction of the client is open
set_machine_mode(mode) ==
    /\ call.status = "idle"
    /\ \E c \in {commit(write_int(NewTx, <<"MACHINE_MODE">>, MachineMode[mode]).tx, db)} :
          Finished(CallOf("set_machine_mode", mode, "", FALSE), c, tx, txState)

NextTx ==
    \/ transaction
    \/ \E w \in QueueInputs : TxWrite(w)
    \/ TxExit
    \/ Recommit
    \/ set_machine_mode("RUN")
    \/ Return

SpecTx == Init /\ [][NextTx]_vars

\* the value a read returns for a tag that holds the written value
Stored(w) == IF w.type = "REAL" THEN DecodeReal(EncodeReal(w.value)) ELSE w.value

\* the tag of the queued write w is in the memory map for the type of w
Readable(mem, w) == ReadQueued(mem, w).err = ""

\* the tag of the queued write w reads value
TagReads(mem, w, value) ==
    Readable(mem, w) /\ ReadQueued(mem, w).val = Stored([w EXCEPT !.value = value])

\* the tags of DB_CONFIG, each with its section
Tags == UNION {{<<sec, t>> : t \in DOMAIN DB_CONFIG[sec]} : sec \in DOMAIN DB_CONFIG}

\* what the tag of section sec named t reads, by the reader of its type
ReadTag(mem, sec, t) ==
    ReadQueued(mem, QueuedWrite(DB_CONFIG[sec][t].type,
                                IF DB_CONFIG[sec][t].type = "BOOL" THEN <<sec, t>>
                                ELSE <<t>>, 0, 0)).val

\* ---------------------------------------------------------------------------
\* Claims about transactions (SpecTx)
\* ---------------------------------------------------------------------------

C6_FailedKeepsPrevious ==
    [][(/\ txState = "open" /\ ~call.foreign
        /\ call'.op = "commit" /\ call'.status = "raised")
       => \A i \in DOMAIN tx.writes :
             Readable(db, tx.writes[i])
             => ReadQueued(db', tx.writes[i]).val = ReadQueued(db, tx.writes[i]).val]_vars

\* C7: a call that opens a transaction while the transaction of the client
\* is open raises without transport I/O, and no write other than the queued
\* writes of the open transaction reaches the transport before it finishes.
C7_NoSecondTransaction ==
    /\ (call.op = "set_machine_mode" /\ call.nested)
       => (call.status = "raised" /\ call.io = 0)
    /\ ~call.foreign

\* C8: a commit() called on a transaction whose commit() has finished,
\* returned or raised, issues no transport read or write.
C8_TerminalCommit == call.op = "recommit" => call.io = 0

\* C9: a queueing call that raises for a string longer than its maximum
\* touches neither the transport nor the memory, and the commit of a
\* transaction holding an Int outside [-32768, 32767] raises with no
\* transport I/O and with every tag of DB_CONFIG reading what it read when
\* the transaction began.
C9_RangeErrorBeforeIO ==
    [][/\ (call'.op = "write" /\ call'.status = "raised")
          => (call'.io = 0 /\ db' = db)
       /\ (/\ txState = "open" /\ ~call.foreign
           /\ call'.op = "commit"
           /\ \E i \in DOMAIN tx.writes :
                 tx.writes[i].type = "INT" /\ ~IntInRange(tx.writes[i].value))
          => (/\ call'.status = "raised"
              /\ call'.io = 0
              /\ \A tag \in Tags :
                    ReadTag(db', tag[1], tag[2]) = ReadTag(db, tag[1], tag[2]))]_vars

\* C21: a commit() in which a write raises or a verification fails ends by
\* raising and leaves the transaction not committed; the message of the
\* exception carries the original failure, and it is the one that lists
\* rollback errors exactly when the rollback of a queued tag failed (on the
\* simulator: the tags that are not in the memory map for their type), the
\* one of a successful rollback otherwise; a commit() without such a
\* failure returns.
C21_RaisesAndReports ==
    [][(/\ call.status = "idle" /\ call'.op \in {"commit", "recommit"}
        /\ ~tx.committed)
       => LET Failed(ex) ==
                  \/ ex.err # ""
                  \/ VerifyWrites(tx.writes, ex.db, 0, <<>>).err # ""
                  \/ VerifyWrites(tx.writes, ex.db, 0, <<>>).errors # <<>>
              Unreadable ==
                  SelectSeq([i \in DOMAIN tx.writes |-> tx.writes[i].tag],
                            LAMBDA t : \E i \in DOMAIN tx.writes :
                                          /\ tx.writes[i].tag = t
                                          /\ ~Readable(db, tx.writes[i]))
          IN  IF Failed(ExecWrites(tx.writes, db, 0))
              THEN /\ call'.status = "raised"
                   /\ ~tx'.committed
                   /\ call'.arg.cause # ""
                   /\ call'.arg.rollback_errors = Unreadable
                   /\ call'.arg.msg = IF Unreadable # <<>>
                                      THEN "Transaction failed"
                                      ELSE "Transaction failed and rolled back successfully"
              ELSE /\ call'.status = "returned"
                   /\ tx'.committed
                   /\ call'.arg.msg = ""]_vars

\* C21 witness: a commit whose verification failed has raised after a
\* rollback of every queued tag that succeeded.
C21_Witness ==
    /\ call.op = "commit" /\ call.status = "raised"
    /\ call.arg.cause = "verification"
    /\ call.arg.rollback_errors = <<>>
    /\ call.arg.msg = "Transaction failed and rolled back successfully"

\* ---------------------------------------------------------------------------
\* The operations of PLCInterface the agent calls, each as one step except
\* pulse_cmd, which runs one transport step at a time
\* ---------------------------------------------------------------------------

ChipID == [BAFFLE |-> 0, HERRINGBONE |-> 1]

ManifoldID == [SMALL |-> 0, LARGE |-> 1]

\* CustomSolvent(name, viscosity, sensitivity, molar_volume), or None
\* (present = FALSE)
CustomSolvent(name, viscosity, sensitivity, molar_volume) ==
    [present |-> TRUE, name |-> name, viscosity |-> viscosity,
     sensitivity |-> sensitivity, molar_volume |-> molar_volume]

\* the payloads the agent passes: a preset solvent, a custom solvent, CUSTOM
\* with custom_solvent = None, a tfr that float32 does not hold within the
\* verification tolerance, and an frr that is no 16-bit integer
Payloads ==
    LET preset == [tfr |-> Rat(1, 1), frr |-> 3, target_volume |-> Rat(5, 2),
                   temperature |-> Rat(25, 1), chip_id |-> "HERRINGBONE",
                   manifold_id |-> "LARGE", lab_pressure |-> Rat(4053, 4),
                   org_solvent_id |-> "IPA", operation_mode |-> "AGENTIC",
                   machine_mode |-> "RUN", custom_solvent |-> [present |-> FALSE]]
    IN  {preset,
         [preset EXCEPT !.org_solvent_id = "CUSTOM",
                        !.custom_solvent =
                            CustomSolvent(<<97, 98>>, Rat(6, 5), Rat(1, 2), Rat(40, 1))],
         [preset EXCEPT !.org_solvent_id = "CUSTOM"],
         [preset EXCEPT !.tfr = Rat(10001, 10)],
         [preset EXCEPT !.frr = 40000]}

\* write_parameters_to_plc with MACHINE_MODE queued as well
ParameterWrites_WithMachineMode(p) ==
    LET Q(type, name, value) == QueuedWrite(type, <<name>>, value, 0)
    IN  [writes |-> <<Q("INT", "OPERATION_MODE", OperationMode[p.operation_mode]),
                      Q("INT", "MACHINE_MODE", MachineMode[p.machine_mode]),
                      Q("REAL", "r_TFR", p.tfr)>>,
         err |-> ""]

\* write_parameters_to_plc that queues nothing for the custom fields when
\* the solvent is a preset
ParameterWrites_NoClear(p) ==
    LET Q(type, name, value) == QueuedWrite(type, <<name>>, value, 0)
        S(value) == QueuedWrite("STRING", <<"s_CUSTOM_ORG_SOLVENT">>, value, 16)
        Solvent(core, cs) ==
            IF p.org_solvent_id = "CUSTOM"
            THEN IF ~cs.present THEN [writes |-> core, err |-> "ValueError"]
                 ELSE IF write_string(NewTx, <<"s_CUSTOM_ORG_SOLVENT">>, cs.name, 16).err # ""
                 THEN [writes |-> core, err |-> "ValueError"]
                 ELSE [writes |-> core \o <<S(cs.name),
                                            Q("REAL", "r_VISCOSITY", cs.viscosity),
                                            Q("REAL", "r_SENSITIVITY", cs.sensitivity),
                                            Q("REAL", "r_MOLAR_VOLUME", cs.molar_volume)>>,
                       err |-> ""]
            ELSE [writes |-> core, err |-> ""]
    IN  Solvent(<<Q("INT", "OPERATION_MODE", OperationMode[p.operation_mode]),
                  Q("REAL", "r_TFR", p.tfr),
                  Q("INT", "i_FRR", p.frr),
                  Q("REAL", "r_TARGET_VOLUME", p.target_volume),
                  Q("REAL", "r_TEMPERATURE", p.temperature),
                  Q("INT", "i_CHIP_ID", ChipID[p.chip_id]),
                  Q("INT", "i_MANIFOLD_ID", ManifoldID[p.manifold_id]),
                  Q("REAL", "r_LAB_PRESSURE", p.lab_pressure),
                  Q("INT", "i_ORG_SOLVENT_ID", OrgSolventID[p.org_solvent_id])>>,
                p.custom_solvent)

\* the body of the with block of write_parameters_to_plc(p): the writes it
\* queues, and the exception that ends the block before the commit, if any
ParameterWrites(p) ==
    LET Q(type, name, value) == QueuedWrite(type, <<name>>, value, 0)
        S(value) == QueuedWrite("STRING", <<"s_CUSTOM_ORG_SOLVENT">>, value, 16)
        Solvent(core, cs) ==
            IF p.org_solvent_id = "CUSTOM"
            THEN IF ~cs.present THEN [writes |-> core, err |-> "ValueError"]
                 ELSE IF write_string(NewTx, <<"s_CUSTOM_ORG_SOLVENT">>, cs.name, 16).err # ""
                 THEN [writes |-> core, err |-> "ValueError"]
                 ELSE [writes |-> core \o <<S(cs.name),
                                            Q("REAL", "r_VISCOSITY", cs.viscosity),
                                            Q("REAL", "r_SENSITIVITY", cs.sensitivity),
                                            Q("REAL", "r_MOLAR_VOLUME", cs.molar_volume)>>,
                       err |-> ""]
            ELSE [writes |-> core \o <<S(<<>>),
                                       Q("REAL", "r_VISCOSITY", Zero),
                                       Q("REAL", "r_SENSITIVITY", Zero),
                                       Q("REAL", "r_MOLAR_VOLUME", Zero)>>,
                  err |-> ""]
    IN  Solvent(<<Q("INT", "OPERATION_MODE", OperationMode[p.operation_mode]),
                  Q("REAL", "r_TFR", p.tfr),
                  Q("INT", "i_FRR", p.frr),
                  Q("REAL", "r_TARGET_VOLUME", p.target_volume),
                  Q("REAL", "r_TEMPERATURE", p.temperature),
                  Q("INT", "i_CHIP_ID", ChipID[p.chip_id]),
                  Q("INT", "i_MANIFOLD_ID", ManifoldID[p.manifold_id]),
                  Q("REAL", "r_LAB_PRESSURE", p.lab_pressure),
                  Q("INT", "i_ORG_SOLVENT_ID", OrgSolventID[p.org_solvent_id])>>,
                p.custom_solvent)

\* write_parameters_to_plc that commits what was queued when the block
\* raised
write_parameters_to_plc_CommitsQueued(p) ==
    /\ call.status = "idle"
    /\ \E body \in {ParameterWrites(p)} :
       \E c \in {commit([NewTx EXCEPT !.writes = body.writes], db)} :
          Finished([CallOf("write_parameters_to_plc", "", "", FALSE) EXCEPT !.arg = p],
                   [c EXCEPT !.err = IF body.err # "" THEN body.err ELSE @],
                   tx, txState)

\* plc.write_parameters_to_plc(payload): the block and, unless the block
\* raised, the commit of its transaction
write_parameters_to_plc(p) ==
    /\ call.status = "idle"
    /\ \E body \in {ParameterWrites(p)} :
       \E c \in {IF body.err # ""
                 THEN CommitResult(NewTx, db, 0, body.err, "", <<>>)
                 ELSE commit([NewTx EXCEPT !.writes = body.writes], db)} :
          Finished([CallOf("write_parameters_to_plc", "", "", FALSE) EXCEPT !.arg = p],
                   c, tx, txState)

\* the body of the with block of write_payload_to_plc(p): the statements of
\* write_parameters_to_plc with MACHINE_MODE queued after OPERATION_MODE
PayloadWrites(p) ==
    LET WithMode(body) ==
            [writes |-> <<Head(body.writes),
                          QueuedWrite("INT", <<"MACHINE_MODE">>,
                                      MachineMode[p.machine_mode], 0)>>
                        \o Tail(body.writes),
             err |-> body.err]
    IN  WithMode(ParameterWrites(p))

\* plc.write_payload_to_plc(payload)
write_payload_to_plc(p) ==
    /\ call.status = "idle"
    /\ \E body \in {PayloadWrites(p)} :
       \E c \in {IF body.err # ""
                 THEN CommitResult(NewTx, db, 0, body.err, "", <<>>)
                 ELSE commit([NewTx EXCEPT !.writes = body.writes], db)} :
          Finished([CallOf("write_payload_to_plc", "", "", FALSE) EXCEPT !.arg = p],
                   c, tx, txState)

Next ==
    \/ \E p \in Payloads : write_parameters_to_plc(p)
    \/ \E p \in Payloads : write_payload_to_plc(p)
    \/ \E mode \in Modes : set_machine_mode(mode)
    \/ \E mode \in Modes, cmd \in {"START", "STOP"} : pulse_cmd(mode, cmd, TRUE)
    \/ CallStep
    \/ Return

Spec == Init /\ [][Next]_vars

\* ---------------------------------------------------------------------------
\* Claims about the operations of the agent (Spec)
\* ---------------------------------------------------------------------------

C11_ReadBack ==
    LET IntIs(name, v) == _read_int(db, <<name>>).err = "" /\ IntTag(db, name) = v
        RealIs(name, v) ==
            _read_real(db, <<name>>).err = "" /\ RealClose(_read_real(db, <<name>>).val, v)
        NameIs(v) == /\ _read_string(db, <<"s_CUSTOM_ORG_SOLVENT">>).err = ""
                   /\ _read_string(db, <<"s_CUSTOM_ORG_SOLVENT">>).val = v
        Custom(p) == p.org_solvent_id = "CUSTOM"
        Reads(p) ==
            /\ IntIs("OPERATION_MODE", OperationMode[p.operation_mode])
            /\ RealIs("r_TFR", p.tfr)
            /\ IntIs("i_FRR", p.frr)
            /\ RealIs("r_TARGET_VOLUME", p.target_volume)
            /\ RealIs("r_TEMPERATURE", p.temperature)
            /\ IntIs("i_CHIP_ID", ChipID[p.chip_id])
            /\ IntIs("i_MANIFOLD_ID", ManifoldID[p.manifold_id])
            /\ RealIs("r_LAB_PRESSURE", p.lab_pressure)
            /\ IntIs("i_ORG_SOLVENT_ID", OrgSolventID[p.org_solvent_id])
            /\ NameIs(IF Custom(p) THEN p.custom_solvent.name ELSE <<>>)
            /\ RealIs("r_VISCOSITY",
                    IF Custom(p) THEN p.custom_solvent.viscosity ELSE Zero)
            /\ RealIs("r_SENSITIVITY",
                    IF Custom(p) THEN p.custom_solvent.sensitivity ELSE Zero)
            /\ RealIs("r_MOLAR_VOLUME",
                    IF Custom(p) THEN p.custom_solvent.molar_volume ELSE Zero)
    IN  /\ (call.op = "write_parameters_to_plc" /\ call.status = "returned")
           => Reads(call.arg)
        /\ (call.op = "write_payload_to_plc" /\ call.status = "returned")
           => (/\ Reads(call.arg)
               /\ IntIs("MACHINE_MODE", MachineMode[call.arg.machine_mode]))

\* C11 witness: write_payload_to_plc returned for a payload with a custom
\* solvent, whose viscosity 1.2 no single holds exactly.
C11_Witness ==
    /\ call.op = "write_payload_to_plc" /\ call.status = "returned"
    /\ call.arg.org_solvent_id = "CUSTOM"

\* C37: when write_parameters_to_plc or write_payload_to_plc returns for a
\* payload with a preset solvent, s_CUSTOM_ORG_SOLVENT reads the empty
\* string and r_VISCOSITY, r_SENSITIVITY and r_MOLAR_VOLUME read 0.0,
\* whatever the four tags held before the call: the values of a custom
\* solvent written earlier, or what a new simulator holds there.
C37_PresetClears ==
    [][(/\ call.status = "idle"
        /\ call'.op \in {"write_parameters_to_plc", "write_payload_to_plc"}
        /\ call'.status = "returned"
        /\ call'.arg.org_solvent_id # "CUSTOM")
       => /\ _read_string(db', <<"s_CUSTOM_ORG_SOLVENT">>).err = ""
          /\ _read_string(db', <<"s_CUSTOM_ORG_SOLVENT">>).val = <<>>
          /\ \A name \in {"r_VISCOSITY", "r_SENSITIVITY", "r_MOLAR_VOLUME"} :
                /\ _read_real(db', <<name>>).err = ""
                /\ _read_real(db', <<name>>).val = DecodeReal(<<0, 0, 0, 0>>)
                /\ RealClose(_read_real(db', <<name>>).val, Zero)]_vars

\* C37 witness: write_parameters_to_plc returned for a preset solvent after
\* a write_payload_to_plc had set MACHINE_MODE, and the custom fields read
\* cleared.
C37_Witness ==
    /\ call.op = "write_parameters_to_plc" /\ call.status = "returned"
    /\ call.arg.org_solvent_id # "CUSTOM"
    /\ ReadTag(db, "OPERATION", "MACHINE_MODE") = MachineMode["RUN"]
    /\ _read_string(db, <<"s_CUSTOM_ORG_SOLVENT">>).val = <<>>
    /\ _read_real(db, <<"r_VISCOSITY">>).val = DecodeReal(<<0, 0, 0, 0>>)

\* C38: write_parameters_to_plc and write_payload_to_plc called with
\* org_solvent_id = CUSTOM and no custom_solvent raise, perform no transport
\* operation and leave the memory as it was: the nine or ten writes queued
\* before the check are never issued.
C38_MissingSolventNoWrite ==
    [][(/\ call.status = "idle"
        /\ call'.op \in {"write_parameters_to_plc", "write_payload_to_plc"}
        /\ call'.arg.org_solvent_id = "CUSTOM"
        /\ ~call'.arg.custom_solvent.present)
       => /\ call'.status = "raised"
          /\ call'.io = 0
          /\ db' = db]_vars

\* C38 witness: write_parameters_to_plc raised for CUSTOM without
\* custom_solvent, with no transport operation, in a memory where an
\* earlier write_payload_to_plc had stored the parameters of a preset.
C38_Witness ==
    /\ call.op = "write_parameters_to_plc" /\ call.status = "raised" /\ call.io = 0
    /\ call.arg.org_solvent_id = "CUSTOM" /\ ~call.arg.custom_solvent.present
    /\ ReadTag(db, "OPERATION", "MACHINE_MODE") = MachineMode["RUN"]
    /\ ReadTag(db, "INPUTS", "i_ORG_SOLVENT_ID") = OrgSolventID["IPA"]

\* ---------------------------------------------------------------------------
\* The client used directly: db_write, db_read, db_write_bit and db_read_bit
\* of _SimClient called with any block number, next to clear_all_cmd_bits
\* running one statement at a time
\* ---------------------------------------------------------------------------

\* the calls made on the client: block 9 and a block that is not
\* whitelisted, addresses below, across and beyond the 219 bytes the
\* simulator starts with, and the command bytes
ClientCalls ==
    LET Args(op, start, size, data, bit, value) ==
            {[op |-> op, db_number |-> n, start |-> start, size |-> size,
              data |-> data, bit |-> bit, value |-> value, err |-> "", val |-> <<>>,
              bitval |-> FALSE] :
             n \in {9, 1}}
    IN  UNION {Args("db_write", 217, 3, <<1, 2, 3>>, 0, 0),
               Args("db_write", 258, 1, <<255>>, 0, 0),
               Args("db_read", 218, 2, <<>>, 0, 0),
               Args("db_read", 262, 2, <<>>, 0, 0),
               Args("db_write_bit", 219, 1, <<>>, 3, 1),
               Args("db_write_bit", 219, 1, <<>>, 3, 0),
               Args("db_write_bit", 262, 1, <<>>, 3, 1),
               Args("db_read_bit", 221, 1, <<>>, 0, 0)}

\* self.client.<op>(...) called by the user of the interface; the call
\* record keeps the arguments, the exception and the value returned
client_call(a) ==
    /\ call.status = "idle"
    /\ \E r \in {IF a.op = "db_write" THEN db_write(db, a.db_number, At(a.start), a.data)
                 ELSE IF a.op = "db_read" THEN db_read(db, a.db_number, At(a.start), a.size)
                 ELSE IF a.op = "db_write_bit"
                 THEN db_write_bit(db, a.db_number, a.start, a.bit, a.value)
                 ELSE db_read_bit(db, a.db_number, a.start, a.bit)} :
          Finished([CallOf("client", "", "", FALSE) EXCEPT
                        !.arg = [a EXCEPT !.err = r.err,
                                          !.val = IF a.op = "db_read" THEN r.val ELSE <<>>,
                                          !.bitval = a.op = "db_read_bit" /\ r.err = ""
                                                     /\ r.val]],
                   r, tx, txState)

\* between the write of clear_all_cmd_bits and its verification another
\* writer of DB9 (the PLC program) sets the bit again
SetAfterClear ==
    /\ call.op = "clear_all_cmd_bits" /\ call.status = "running"
    /\ Steps(call)[pc + 1].k = "verify"
    /\ db' = _write_bool(db, Steps(call)[pc + 1].tag, TRUE).db
    /\ UNCHANGED <<tx, txState, pc, call, link>>

NextSim ==
    \/ \E a \in ClientCalls : client_call(a)
    \/ clear_all_cmd_bits
    \/ CallStep
    \/ SetAfterClear
    \/ Return

SpecSim == Init /\ [][NextSim]_vars

\* ---------------------------------------------------------------------------
\* Claims about the client and clear_all_cmd_bits (SpecSim)
\* ---------------------------------------------------------------------------

\* C13: whatever the memory held before, when clear_all_cmd_bits has
\* returned all twelve command bits read false, and a verification that
\* finds the bit just cleared reading true ends the call with an exception.
C13_ClearVerified ==
    [][/\ (call'.op = "clear_all_cmd_bits" /\ call'.status = "returned")
          => \A p \in CmdPairs : ~CmdBit(db', p[1], p[2])
       /\ (/\ call.op = "clear_all_cmd_bits" /\ call.status = "running"
           /\ Steps(call)[pc + 1].k = "verify"
           /\ _read_bool(db, Steps(call)[pc + 1].tag).val
           /\ call' # call)
          => call'.status = "raised"]_vars

\* C13 witness: clear_all_cmd_bits returned on a memory whose command bytes
\* the client had written before: byte 258 held 255 and keeps the bits the
\* call does not address.
C13_Witness ==
    /\ call.op = "clear_all_cmd_bits" /\ call.status = "returned"
    /\ db.bytes[258] = 244

\* C15: the memory starts as zeros and grows with zeros: every byte that a
\* call on the client creates beyond the current length, and does not
\* write, is 0, so that a byte no write has targeted reads 0.
C15_GrowsWithZeros ==
    [][LET Target(a) ==
               IF a.db_number # 9 THEN {}
               ELSE IF a.op = "db_write" THEN a.start..(a.start + a.size - 1)
               ELSE IF a.op = "db_write_bit" THEN {a.start}
               ELSE {}
       IN  (call.status = "idle" /\ call'.op = "client")
           => \A a \in Win :
                 (a >= db.len /\ a < db'.len /\ a \notin Target(call'.arg))
                 => db'.bytes[a] = 0]_vars

\* C16: a call on the client for a block other than DB 9 raises
\* PermissionError and leaves the bytes and the length of the memory as
\* they were.
C16_Whitelist ==
    [][(call.status = "idle" /\ call'.op = "client" /\ call'.arg.db_number # 9)
       => (/\ call'.status = "raised"
           /\ call'.arg.err = "PermissionError"
           /\ db' = db)]_vars

\* C16 witness: a write to block 1 raised on a memory that earlier calls
\* had extended and written.
C16_Witness ==
    /\ call.op = "client" /\ call.status = "raised"
    /\ call.arg.op = "db_write" /\ call.arg.db_number = 1
    /\ db.len > SimInitLen /\ db.bytes[258] = 255

\* ---------------------------------------------------------------------------
\* The life cycle of the interface: PLCInterface(simulate=...), connect(),
\* disconnect() and  with plc: ...  blocks, with set_machine_mode as the
\* data operation (on the simulator; the memory behind a snap7 client is
\* not modelled and db is unused while the client is one)
\* ---------------------------------------------------------------------------

\* __init__ has picked the client (use_sim = simulate or snap7 is None)
\* and is about to call self.connect()
InitLink ==
    /\ db = NewDb
    /\ tx = NewTx
    /\ txState = "none"
    /\ pc = 0
    /\ call = Idle("none", FALSE)
    /\ \E use_sim \in BOOLEAN : link = NewLink(use_sim)

\* self.connect(), called by __init__ or by the user
Connect(outcome) ==
    /\ call.status = "idle"
    /\ (link.client = "sim") => (outcome = "connected")
    /\ \E c \in {connect(link, db, outcome)} :
          /\ link' = [c.link EXCEPT !.block = IF @ = "new" THEN "none" ELSE @]
          /\ db' = c.db
          /\ call' = [CallOf("connect", "", "", FALSE) EXCEPT
                          !.arg = [outcome |-> outcome, attempts |-> c.attempts,
                                   fallbacks |-> c.fallbacks, init |-> link.block = "new"],
                          !.status = IF c.err # "" THEN "raised" ELSE "returned"]
    /\ UNCHANGED <<tx, txState, pc>>

\* plc.disconnect(), called by the user
Disconnect ==
    /\ call.status = "idle"
    /\ link.block # "new"
    /\ link' = disconnect(link)
    /\ call' = [CallOf("disconnect", "", "", FALSE) EXCEPT !.status = "returned"]
    /\ UNCHANGED <<db, tx, txState, pc>>

\* with plc:  is entered; __enter__ returns self
Enter ==
    /\ call.status = "idle"
    /\ link.block \in {"none", "exited"}
    /\ link' = [link EXCEPT !.block = "body"]
    /\ UNCHANGED <<db, tx, txState, pc, call>>

\* the body of the with block has ended, normally or with an exception
\* (exc): __exit__ calls self.disconnect() and returns False
Exit(exc) ==
    /\ call.status = "idle"
    /\ link.block = "body"
    /\ link' = [disconnect(link) EXCEPT !.block = "exited"]
    /\ call' = [CallOf("with", "", "", FALSE) EXCEPT
                    !.arg = [exc |-> exc],
                    !.status = IF exc THEN "raised" ELSE "returned"]
    /\ UNCHANGED <<db, tx, txState, pc>>

NextLink ==
    \/ \E outcome \in {"connected", "raises", "unconnected"} : Connect(outcome)
    \/ Disconnect
    \/ Enter
    \/ \E exc \in BOOLEAN : Exit(exc)
    \/ \E mode \in Modes :
          link.block # "new" /\ link.client = "sim" /\ set_machine_mode(mode)
    \/ Return

SpecLink == InitLink /\ [][NextLink]_vars

\* ---------------------------------------------------------------------------
\* Claims about the life cycle (SpecLink)
\* ---------------------------------------------------------------------------

\* C14: right after the interface has been constructed and has connected
\* to the simulator, before any other operation, each of the twelve
\* command bits reads false.
C14_AllFalseAtConnect ==
    (/\ call.op = "connect" /\ call.status = "returned" /\ call.arg.init
     /\ link.client = "sim")
    => \A p \in CmdPairs : ~CmdBit(db, p[1], p[2])

C18_NeverReverted ==
    [][link.downgraded => (link'.downgraded /\ link'.client = "sim")]_vars

\* C18 witness: a downgraded interface was disconnected and has connected
\* again.
C18_Witness ==
    /\ link.downgraded /\ link.client = "sim" /\ link.connected
    /\ call.op = "connect" /\ call.status = "returned"
    /\ call.arg.attempts = 0 /\ ~call.arg.init

\* C19: when a  with plc:  block exits, after a normal end of its body or
\* an exception, the client is not connected, the exception of the body
\* propagates, and client.disconnect() has been invoked once for the
\* connection: never twice, whatever disconnect() calls come before or
\* after.
C19_DisconnectOnce ==
    [][/\ link'.closes <= 1
       /\ (link.block = "body" /\ link'.block = "exited")
          => (/\ ~link'.connected
              /\ call'.status = IF call'.arg.exc THEN "raised" ELSE "returned"
              /\ link'.closes = IF link.connected THEN 1 ELSE link.closes)]_vars

\* C19 witness: a block whose body raised has exited on a connected client.
C19_Witness ==
    /\ call.op = "with" /\ call.status = "raised" /\ call.arg.exc
    /\ link.block = "exited" /\ link.closes = 1 /\ ~link.connected

\* ---------------------------------------------------------------------------
\* Polling CRUNCH_VALID (tamara_graph.py, collect_and_validate_with_plc; the
\* same loop is in test_crunch_validation_timeout). Time is counted in
\* ticks of 0.1 s since t0 and saturates at the budget, the only value
\* the loop compares it with.
\* ---------------------------------------------------------------------------

\* while time.time() - t0 < 3.0
PollBudget == 30

\* time.sleep(0.1)
PollInterval == 1

\* the ticks a sleep may last beyond the interval
MaxJitter == 1

\* read_crunch_valid that tests the bit above the one of the address
read_crunch_valid_NextBit(mem) ==
    LET at == BitAddress["OPERATION"]["CRUNCH_VALID"]
        Check(result) ==
            IF result.err # "" THEN Res(result.db, result.err, FALSE, result.io)
            ELSE Res(result.db, "", Len(result.val) > 0
                                     /\ TestBit(result.val[1], at.bit_offset + 1), result.io)
    IN  Check(db_read(mem, DB_CONFIG["OPERATION"]["CRUNCH_VALID"].db_number,
                      At(at.byte_offset), 1))

\* read_crunch_valid(): one byte read at int(start), tested at the bit
\* int((start % 1) * 10); an empty result reads as False
read_crunch_valid(mem) ==
    LET at == BitAddress["OPERATION"]["CRUNCH_VALID"]
        Check(result) ==
            IF result.err # "" THEN Res(result.db, result.err, FALSE, result.io)
            ELSE Res(result.db, "", Len(result.val) > 0
                                     /\ TestBit(result.val[1], at.bit_offset), result.io)
    IN  Check(db_read(mem, DB_CONFIG["OPERATION"]["CRUNCH_VALID"].db_number,
                      At(at.byte_offset), 1))

\* t0 = time.time(); ok = False  (ok is the value of the call; seen tells
\* whether CRUNCH_VALID has been set at any moment since t0)
PollStart ==
    /\ call.status = "idle"
    /\ call' = [CallOf("poll", "", "", FALSE) EXCEPT
                    !.arg = [elapsed |-> 0, at |-> "test", polls |-> 0,
                             seen |-> read_crunch_valid(db).val]]
    /\ UNCHANGED <<db, tx, txState, pc, link>>

\* the test of the while statement; when it fails the loop has ended
PollTest ==
    /\ call.op = "poll" /\ call.status = "running" /\ call.arg.at = "test"
    /\ call' = IF call.arg.elapsed < PollBudget
               THEN [call EXCEPT !.arg.at = "read"]
               ELSE [call EXCEPT !.status = "returned"]
    /\ UNCHANGED <<db, tx, txState, pc, link>>

\* if plc.read_crunch_valid(): ok = True; break
PollRead ==
    /\ call.op = "poll" /\ call.status = "running" /\ call.arg.at = "read"
    /\ \E r \in {read_crunch_valid(db)} :
          /\ db' = r.db
          /\ call' = IF r.err # ""
                     THEN [call EXCEPT !.status = "raised", !.arg.polls = @ + 1]
                     ELSE IF r.val
                     THEN [call EXCEPT !.status = "returned", !.value = TRUE,
                                       !.arg.polls = @ + 1]
                     ELSE [call EXCEPT !.arg.at = "sleep", !.arg.polls = @ + 1]
    /\ UNCHANGED <<tx, txState, pc, link>>

\* a sleep during which no time passes
PollSleep_NoTime(d) ==
    /\ call.op = "poll" /\ call.status = "running" /\ call.arg.at = "sleep"
    /\ call' = [call EXCEPT !.arg.at = "test"]
    /\ UNCHANGED <<db, tx, txState, pc, link>>

\* time.sleep(0.1): returns after d ticks, d >= the interval
PollSleep(d) ==
    /\ call.op = "poll" /\ call.status = "running" /\ call.arg.at = "sleep"
    /\ call' = [call EXCEPT !.arg.at = "test",
                            !.arg.elapsed = IF @ + d > PollBudget THEN PollBudget
                                            ELSE @ + d]
    /\ UNCHANGED <<db, tx, txState, pc, link>>

\* the PLC side (in the tests: plc_sim._write_bool('CRUNCH_VALID', v))
\* sets or clears the validation bit, before or during a poll
SetValid(v) ==
    /\ call.status \in {"idle", "running"}
    /\ db' = _write_bool(db, <<"CRUNCH_VALID">>, v).db
    /\ call' = IF call.op = "poll" THEN [call EXCEPT !.arg.seen = @ \/ v] ELSE call
    /\ UNCHANGED <<tx, txState, pc, link>>

NextPoll ==
    \/ PollStart
    \/ PollTest
    \/ PollRead
    \/ \E d \in PollInterval..(PollInterval + MaxJitter) : PollSleep(d)
    \/ \E v \in BOOLEAN : SetValid(v)
    \/ Return

\* the thread that polls is scheduled again and again; the PLC side need
\* not act
SpecPoll ==
    /\ Init
    /\ [][NextPoll]_vars
    /\ WF_vars(PollTest \/ PollRead
               \/ \E d \in PollInterval..(PollInterval + MaxJitter) : PollSleep(d))

\* ---------------------------------------------------------------------------
\* Claims about polling (SpecPoll)
\* ---------------------------------------------------------------------------

\* C20: a poll of CRUNCH_VALID with an interval and a budget terminates,
\* after at most budget / interval reads; it never raises; when the bit
\* was never set since the poll began it ends with False, and only once
\* the budget has passed; a read that finds the bit set ends the poll with
\* True at that read.
C20_PollTerminates ==
    /\ [](call.op = "poll"
          => /\ call.status # "raised"
             /\ call.arg.polls * PollInterval <= PollBudget
             /\ (call.status = "returned" /\ ~call.arg.seen) => ~call.value
             /\ (call.status = "returned" /\ ~call.value)
                => call.arg.elapsed >= PollBudget)
    /\ [][(call.op = "poll" /\ call.arg.at = "read" /\ call.status = "running"
           /\ call' # call /\ call'.arg.polls > call.arg.polls)
          => (call'.value = read_crunch_valid(db).val
              /\ (call'.value => call'.status = "returned"))]_vars
    /\ ((call.op = "poll" /\ call.status = "running")
        ~> (call.op = "poll" /\ call.status = "returned"))

\* C20 witness: a poll on which the bit was never set has ended with
\* False after the last of its reads.
C20_Witness ==
    /\ call.op = "poll" /\ call.status = "returned" /\ ~call.value
    /\ ~call.arg.seen
    /\ call.arg.polls * PollInterval = PollBudget

\* ---------------------------------------------------------------------------
\* Typed writes and reads of one tag (SpecIO): on a memory that earlier
\* calls have left, one call of _write_real, _write_int, _write_bool or
\* _write_string, of the client's db_write_bit, or of a reader.  On the
\* real link only _write_bool is modelled: it reaches the client through
\* db_read and db_write alone, which read and write the bytes of the block.
\* ---------------------------------------------------------------------------

\* _write_bool on a client that is no _SimClient: read the byte, set or
\* clear the bit, write the byte back
_write_bool_snap7(mem, tag, value) ==
    LET Modified(c, current_byte) ==
            Res([mem EXCEPT !.bytes[c.at.byte_offset] =
                     IF value THEN OrBit(current_byte, c.at.bit_offset)
                     ELSE AndNotBit(current_byte, c.at.bit_offset)],
                "", <<>>, 2)
        Write(c) == IF ~c.found THEN Res(mem, "ValueError", <<>>, 0)
                    ELSE Modified(c, mem.bytes[c.at.byte_offset])
    IN  Write(BoolCfg(tag))

\* the memories the call finds: the new simulator; a simulator on which
\* every kind of tag has been written; and, for every byte value b, the
\* simulator after client.db_write(9, 202, [b]) and
\* client.db_write(9, 258, [b] * 6)
IODbs ==
    {NewDb,
     ExecWrites(<<QueuedWrite("STRING", <<"s_CUSTOM_ORG_SOLVENT">>, [i \in 1..16 |-> 122], 16),
                  QueuedWrite("INT", <<"i_FRR">>, -1, 0),
                  QueuedWrite("INT", <<"i_MANIFOLD_ID">>, 258, 0),
                  QueuedWrite("REAL", <<"r_TFR">>, Rat(-5, 2), 0),
                  QueuedWrite("REAL", <<"r_LAB_PRESSURE">>, Rat(4053, 4), 0)>>,
                NewDb, 0).db}
    \cup {db_write(db_write(NewDb, 9, At(202), <<b>>).db, 9, At(258),
                   <<b, b, b, b, b, b>>).db : b \in 0..255}

\* the typed writes: every Int tag with values at and around the ends of
\* the 16-bit range and of its bytes; Real values that single precision
\* holds exactly and values it does not; strings of ASCII and of other
\* characters, empty, of the maximum length and longer; every Bool tag
IOInputs ==
    {QueuedWrite("INT", <<t>>, v, 0) :
        t \in {"OPERATION_MODE", "MACHINE_MODE", "i_FRR", "i_CHIP_ID", "i_MANIFOLD_ID",
               "i_ORG_SOLVENT_ID"},
        v \in {-40000, IntMin - 1, IntMin, IntMin + 1, -257, -256, -129, -128, -1, 0, 1,
               42, 127, 128, 255, 256, IntMax - 1, IntMax, IntMax + 1, 40000}}
    \cup {QueuedWrite("REAL", <<t>>, v, 0) :
            t \in {"r_TFR", "r_MOLAR_VOLUME"},
            v \in {Zero, Rat(1, 1), Rat(-5, 2), Rat(12, 10), Rat(10001, 10),
                   Rat(99999999, 100), Rat(Million, 1), Rat(0 - Million, 1)}}
    \cup {QueuedWrite("STRING", <<"s_CUSTOM_ORG_SOLVENT">>, v, 16) :
            v \in {<<>>, <<97, 98>>, [i \in 1..16 |-> 97], [i \in 1..17 |-> 97],
                   <<233>>, <<97, 233, 98>>}}
    \cup {QueuedWrite("BOOL", tag, v, 0) :
            tag \in {<<"CRUNCH_VALID">>}
                    \cup {CmdTag(mode_map[p[1]], cmd_map[p[2]]) : p \in CmdPairs},
            v \in BOOLEAN}

\* the interface is connected, to the simulator or to the real link, and
\* the memory is one of IODbs
InitIO ==
    /\ db \in IODbs
    /\ tx = NewTx
    /\ txState = "none"
    /\ pc = 0
    /\ call = Idle("none", FALSE)
    /\ \E use_sim \in BOOLEAN :
          link = [NewLink(use_sim) EXCEPT !.connected = TRUE, !.block = "none"]

\* self._write_real / _write_int / _write_bool / _write_string
TypedWrite(w) ==
    /\ call.status = "idle"
    /\ link.client = "real" => w.type = "BOOL"
    /\ \E r \in {IF link.client = "real" THEN _write_bool_snap7(db, w.tag, w.value)
                 ELSE ExecWrite(db, w)} :
          Finished([CallOf("typed_write", "", "", FALSE) EXCEPT !.arg = [w |-> w]],
                   r, tx, txState)

\* self._read_real / _read_int / _read_bool / _read_string on the simulator
TypedRead(w) ==
    /\ call.status = "idle"
    /\ link.client = "sim"
    /\ \E r \in {ReadQueued(db, w)} :
          Finished([CallOf("typed_read", "", "", FALSE) EXCEPT !.arg = [w |-> w]],
                   r, tx, txState)

\* self.client.db_write_bit(9, byte_offset, bit_offset, value) on the
\* simulator
BitWrite(byte_offset, bit_offset, value) ==
    /\ call.status = "idle"
    /\ link.client = "sim"
    /\ \E r \in {db_write_bit(db, 9, byte_offset, bit_offset, value)} :
          Finished([CallOf("db_write_bit", "", "", FALSE) EXCEPT
                        !.arg = [byte_offset |-> byte_offset, bit_offset |-> bit_offset,
                                 set |-> value # 0]],
                   r, tx, txState)

\* one call on the memory found
NextIO ==
    \/ \E w \in IOInputs : TypedWrite(w)
    \/ \E w \in IOInputs : TypedRead(w)
    \/ \E byte_offset \in {202, 258, 262}, bit_offset \in 0..7, value \in {0, 1} :
          BitWrite(byte_offset, bit_offset, value)

SpecIO == InitIO /\ [][NextIO]_vars

\* ---------------------------------------------------------------------------
\* Claims about typed writes and reads (SpecIO)
\* ---------------------------------------------------------------------------

\* C24: _write_int of a value in [-32768, 32767] to an Int tag returns and
\* _read_int of the tag then returns the value, its two bytes being the
\* big-endian two's complement of it; _write_int of a value outside the
\* range raises and leaves the memory as it was.  On the new simulator the
\* round trip is checked for every value of the range and every Int tag.
C24_IntRoundTrip ==
    [][(/\ call.status = "idle" /\ call'.op = "typed_write"
        /\ call'.arg.w.type = "INT")
       => LET Then(w, cfg) ==
                  IF IntInRange(w.value)
                  THEN /\ call'.status = "returned"
                       /\ _read_int(db', w.tag).val = w.value
                       /\ (db'.bytes[cfg.start.whole] * 256)
                          + db'.bytes[cfg.start.whole + 1]
                          = IF w.value < 0 THEN w.value + 65536 ELSE w.value
                  ELSE /\ call'.status = "raised"
                       /\ db' = db
              Every(w) ==
                  (w.value = 42 /\ db = NewDb)
                  => \A v \in IntMin..IntMax :
                        _read_int(_write_int(db, w.tag, v).db, w.tag).val = v
          IN  Every(call'.arg.w) /\ Then(call'.arg.w,
                   DB_CONFIG[FindSection(IntSections, Key(call'.arg.w.tag))]
                            [Key(call'.arg.w.tag)])]_vars

\* C24 witness: the least Int has been written to a tag that lies beyond
\* the end of the memory of a new simulator.
C24_Witness ==
    /\ call.op = "typed_write" /\ call.status = "returned"
    /\ call.arg.w.type = "INT" /\ call.arg.w.value = IntMin
    /\ call.arg.w.tag = <<"i_MANIFOLD_ID">>
    /\ _read_int(db, <<"i_MANIFOLD_ID">>).val = IntMin

\* C25: _write_string of a string no longer than the maximum of the tag
\* returns and _read_string of the tag then returns the string, whatever
\* the tag held before; _write_string of a longer string raises and leaves
\* the memory as it was.
C25_StringRoundTrip ==
    [][(/\ call.status = "idle" /\ call'.op = "typed_write"
        /\ call'.arg.w.type = "STRING")
       => LET Then(w) ==
                  IF Len(w.value) <= w.max_len
                  THEN /\ call'.status = "returned"
                       /\ _read_string(db', w.tag).err = ""
                       /\ _read_string(db', w.tag).val = w.value
                  ELSE /\ call'.status = "raised"
                       /\ db' = db
          IN  Then(call'.arg.w)]_vars

\* C26: _write_real of a value in [-1e6, 1e6] to a Real tag returns and
\* _read_real of the tag then returns a value within 1e-6 of it.
C26_RealRoundTrip ==
    [][(/\ call.status = "idle" /\ call'.op = "typed_write"
        /\ call'.arg.w.type = "REAL")
       => /\ call'.status = "returned"
          /\ RealClose(_read_real(db', call'.arg.w.tag).val, call'.arg.w.value)]_vars

\* C27: a write of a Bool tag, by the simulator's db_write_bit or by the
\* read-modify-write of the real link, and a db_write_bit of any bit 0..7
\* of a byte of any value, returns with the targeted bit holding the value
\* written, the other seven bits of its byte as they were and every other
\* byte reading what it read before (a byte beyond the end of the
\* simulator's memory reads what the extension puts there).
C27_OnlyTargetBit ==
    [][(/\ call.status = "idle"
        /\ \/ call'.op = "db_write_bit"
           \/ call'.op = "typed_write" /\ call'.arg.w.type = "BOOL")
       => LET View(mem, a) ==
                  IF link.client = "sim" /\ a >= mem.len
                  THEN PadUnit[((a - SimInitLen) % 4) + 1]
                  ELSE mem.bytes[a]
              Frame(byte, bit, value) ==
                  /\ call'.status = "returned"
                  /\ TestBit(View(db', byte), bit) = value
                  /\ \A k \in 0..7 :
                        k # bit => (TestBit(View(db', byte), k) = TestBit(View(db, byte), k))
                  /\ \A a \in Win : a # byte => View(db', a) = View(db, a)
          IN  IF call'.op = "db_write_bit"
              THEN Frame(call'.arg.byte_offset, call'.arg.bit_offset, call'.arg.set)
              ELSE Frame(BoolCfg(call'.arg.w.tag).at.byte_offset,
                         BoolCfg(call'.arg.w.tag).at.bit_offset,
                         call'.arg.w.value)]_vars

\* C27 witness: bit 5 of a byte that held 255 has been cleared.
C27_Witness ==
    /\ call.op = "db_write_bit" /\ call.status = "returned"
    /\ call.arg.byte_offset = 258 /\ call.arg.bit_offset = 5 /\ ~call.arg.set
    /\ db.bytes[258] = 223 /\ db.bytes[259] = 255

\* ---------------------------------------------------------------------------
\* Claims about queueing (SpecTx)
\* ---------------------------------------------------------------------------

\* C28: a queueing call (write_real, write_int, write_bool, write_string)
\* performs no transport operation and leaves the memory as it was; it
\* either appends its write to the queue or raises, and a raise leaves the
\* block without a commit.  While a block is open or has been left by an
\* exception, the memory changes only by a call of set_machine_mode, which
\* writes MACHINE_MODE in a transaction of its own, and no commit of a
\* transaction whose block raised ever starts.
C28_QueueOnly ==
    [][(call.status = "idle" /\ call'.status # "idle")
       => /\ call'.op = "write"
             => /\ db' = db
                /\ call'.io = 0
                /\ txState = "open"
                /\ IF call'.status = "raised"
                   THEN tx' = tx /\ txState' = "aborted"
                   ELSE /\ Len(tx'.writes) = Len(tx.writes) + 1
                        /\ SubSeq(tx'.writes, 1, Len(tx.writes)) = tx.writes
                        /\ ~tx'.committed
                        /\ txState' = "open"
          /\ (txState \in {"open", "aborted"} /\ call'.op # "commit")
             => /\ db' # db => call'.op = "set_machine_mode"
                /\ call'.io > 0 => call'.op = "set_machine_mode"
                /\ call'.op = "set_machine_mode" => tx' = tx /\ txState' = txState
          /\ txState = "aborted"
             => /\ call'.op \notin {"commit", "recommit"}
                /\ ~tx'.committed]_vars

\* C28 witness: the block queued a write of i_FRR, a later queueing call
\* raised, and i_FRR still reads what it read before the block.
C28_Witness ==
    /\ txState = "aborted"
    /\ call.op = "write" /\ call.status = "raised" /\ call.io = 0
    /\ Len(tx.writes) = 1
    /\ tx.writes[1] = QueuedWrite("INT", <<"i_FRR">>, 1, 0)
    /\ _read_int(db, <<"i_FRR">>).val = 0

\* ---------------------------------------------------------------------------
\* The operations of the interface while the PLC side sets and clears
\* CRUNCH_VALID
\* ---------------------------------------------------------------------------

\* plc.read_crunch_valid(), called by the client
ReadValid ==
    /\ call.status = "idle"
    /\ \E r \in {read_crunch_valid(db)} :
          Finished([CallOf("read_crunch_valid", "", "", FALSE) EXCEPT !.value = r.val],
                   r, tx, txState)

\* plc.start_operation, plc.pulse_cmd or plc.clear_all_cmd_bits is called:
\* the call c executes its first statement
Command(c) ==
    /\ call.status = "idle"
    /\ Advance(CallOf(c.op, c.mode, c.cmd, c.value), 0)

NextValid ==
    \/ \E p \in Payloads : write_parameters_to_plc(p)
    \/ \E p \in Payloads : write_payload_to_plc(p)
    \/ set_machine_mode("RUN")
    \/ \E c \in {[op |-> "start_operation", mode |-> mode, cmd |-> "", value |-> FALSE] :
                     mode \in Modes}
               \cup {[op |-> "pulse_cmd", mode |-> "RUN", cmd |-> cmd, value |-> TRUE] :
                        cmd \in {"START", "STOP"}}
               \cup {[op |-> "clear_all_cmd_bits", mode |-> "", cmd |-> "", value |-> FALSE]} :
          Command(c)
    \/ ReadValid
    \/ \E v \in BOOLEAN : SetValid(v)
    \/ CallStep
    \/ Return

SpecValid == Init /\ [][NextValid]_vars

\* C29: every step but one of the PLC side leaves bit 0 of byte 202 as it
\* was, whatever the operation (write_parameters_to_plc,
\* write_payload_to_plc, set_machine_mode, start_operation, pulse_cmd,
\* clear_all_cmd_bits, each with its rollback) and whether the bit is set
\* or clear; read_crunch_valid returns that bit and leaves the memory as
\* it was.
C29_CrunchValidReadOnly ==
    [][/\ ~(\E v \in BOOLEAN : SetValid(v))
          => TestBit(db'.bytes[202], 0) = TestBit(db.bytes[202], 0)
       /\ (call.status = "idle" /\ call'.op = "read_crunch_valid")
          => /\ call'.status = "returned"
             /\ call'.value = TestBit(db.bytes[202], 0)
             /\ db' = db]_vars

\* C29 witness: write_payload_to_plc failed and rolled its writes back
\* while CRUNCH_VALID was set, and the bit is still set.
C29_Witness ==
    /\ call.op = "write_payload_to_plc" /\ call.status = "raised" /\ call.io > 0
    /\ TestBit(db.bytes[202], 0)
    /\ read_crunch_valid(db).val

\* ---------------------------------------------------------------------------
\* Fault recovery: ensure_ready_state() of the agent
\* ---------------------------------------------------------------------------

\* class PLCStatus of the agent
PLC_STATUS ==
    [INITIALIZING |-> 0, READY |-> 1, RUNNING |-> 2, CLEANING |-> 3, PRESSURE_TEST |-> 4,
     SAFE_PURGE |-> 5, FAULTED |-> 6, RESET |-> 7, E_STOP |-> 8]

\* the codes MACHINE_MODE holds after a fault
FaultCodes == {PLC_STATUS.FAULTED, PLC_STATUS.E_STOP}

\* the interface of the caller is a simulator or a snap7 client connected
\* to the PLC
InitReady ==
    /\ db = NewDb
    /\ tx = NewTx
    /\ txState = "none"
    /\ pc = 0
    /\ call = Idle("none", FALSE)
    /\ \E use_sim \in BOOLEAN :
          link = [NewLink(use_sim) EXCEPT !.connected = TRUE, !.block = "none"]

\* the PLC side (in the test: plc_sim._write_int('MACHINE_MODE', 6)) reports
\* a fault
Fault(code) ==
    /\ call.status = "idle"
    /\ db' = _write_int(db, <<"MACHINE_MODE">>, code).db
    /\ UNCHANGED <<tx, txState, pc, call, link>>

\* ensure_ready_state():  with PLCInterface() as plc:
\*                            plc.set_machine_mode(PLC_STATUS["READY"])
\* The interface is a new one.  Its simulator has a memory of its own, new
\* and dropped at the end of the block; its snap7 client reaches the DB of
\* the PLC.  Nothing but MACHINE_MODE is written.
ensure_ready_state ==
    /\ call.status = "idle"
    /\ \E own \in {link.client = "sim"} :
       \E c \in {commit(write_int(NewTx, <<"MACHINE_MODE">>, PLC_STATUS.READY).tx,
                        IF own THEN NewDb ELSE db)} :
          Finished([CallOf("ensure_ready_state", "", "", FALSE) EXCEPT
                        !.arg = [before |-> _read_int(db, <<"MACHINE_MODE">>).val,
                                 own |-> own]],
                   [c EXCEPT !.db = IF own THEN db ELSE c.db], tx, txState)

NextReady ==
    \/ \E code \in FaultCodes : Fault(code)
    \/ \E mode \in Modes, cmd \in {"START", "STOP"} : pulse_cmd(mode, cmd, TRUE)
    \/ CallStep
    \/ ensure_ready_state
    \/ Return

SpecReady == InitReady /\ [][NextReady]_vars

\* C30: when ensure_ready_state() has returned from a state in which
\* MACHINE_MODE held a fault code, MACHINE_MODE reads READY (1) and b_START
\* of every mode reads false.
C30_ReadyAfterRecovery ==
    (/\ call.op = "ensure_ready_state" /\ call.status = "returned"
     /\ call.arg.before \in FaultCodes)
    => /\ _read_int(db, <<"MACHINE_MODE">>).val = PLC_STATUS.READY
       /\ \A mode \in Modes : ~_read_bool(db, <<mode_map[mode], "b_START">>).val

\* ---------------------------------------------------------------------------
\* Claims about the regions of the tags (SpecIO)
\* ---------------------------------------------------------------------------

\* C31: a _write_string that returns changes no byte outside the region of
\* its tag, the 2 bytes of the header and the max_len bytes after it (224
\* to 241 for s_CUSTOM_ORG_SOLVENT): every other byte, those of
\* r_LAB_PRESSURE at 242 among them, reads what it read before.
C31_StringInRegion ==
    [][(/\ call.status = "idle" /\ call'.op = "typed_write"
        /\ call'.arg.w.type = "STRING" /\ call'.status = "returned")
       => LET View(mem, a) ==
                  IF a >= mem.len THEN PadUnit[((a - SimInitLen) % 4) + 1]
                  ELSE mem.bytes[a]
              Region(cfg, max_len) == cfg.start.whole..(cfg.start.whole + 2 + max_len - 1)
              Inside(w) == Region(DB_CONFIG["INPUTS"][Key(w.tag)], w.max_len)
          IN  \A a \in Win \ Inside(call'.arg.w) : View(db', a) = View(db, a)]_vars

\* C34: a typed write that returns leaves what every other tag of
\* DB_CONFIG reads (the parameter tags, CRUNCH_VALID and the twelve command
\* bits, each read by the reader of its type) as it was.
C34_NoAlias ==
    [][(/\ call.status = "idle" /\ call'.op = "typed_write"
        /\ call'.status = "returned" /\ link.client = "sim")
       => LET Is(w, p) == w.tag = <<p[1], p[2]>> \/ w.tag = <<p[2]>>
          IN  \A p \in Tags :
                 ~Is(call'.arg.w, p) => ReadTag(db', p[1], p[2]) = ReadTag(db, p[1], p[2])]_vars

\* ---------------------------------------------------------------------------
\* Typed writes to tags of another kind
\* ---------------------------------------------------------------------------

\* cfg['type'] of the tag a typed write names, "" for an unknown tag
DeclaredType(tag) ==
    LET Of(p) == IF p = {} THEN "" ELSE DB_CONFIG[(CHOOSE q \in p : TRUE)[1]][Key(tag)].type
    IN  Of({q \in Tags : q[2] = Key(tag)})

\* typed writes to the parameter tags: writes of the kind of the tag, and
\* a Real write to an Int tag, an Int write to a Real tag, a Bool write to
\* an Int tag and a String write to an Int tag
KindInputs ==
    {QueuedWrite("INT", <<"OPERATION_MODE">>, 2, 0),
     QueuedWrite("REAL", <<"r_TFR">>, Rat(1, 1), 0),
     QueuedWrite("INT", <<"i_FRR">>, 7, 0),
     QueuedWrite("REAL", <<"r_TARGET_VOLUME">>, Rat(-5, 2), 0),
     QueuedWrite("REAL", <<"i_FRR">>, Rat(1, 1), 0),
     QueuedWrite("REAL", <<"i_FRR">>, Rat(12, 10), 0),
     QueuedWrite("INT", <<"r_TFR">>, 3, 0),
     QueuedWrite("BOOL", <<"OPERATION_MODE">>, TRUE, 0),
     QueuedWrite("BOOL", <<"OPERATION_MODE">>, FALSE, 0),
     QueuedWrite("STRING", <<"i_FRR">>, <<97>>, 16)}

\* the interface is connected to its new simulator
InitKind ==
    /\ db = NewDb
    /\ tx = NewTx
    /\ txState = "none"
    /\ pc = 0
    /\ call = Idle("none", FALSE)
    /\ link = [NewLink(TRUE) EXCEPT !.connected = TRUE, !.block = "none"]

\* typed writes one after another
NextKind ==
    \/ \E w \in KindInputs : TypedWrite(w)
    \/ Return

SpecKind == InitKind /\ [][NextKind]_vars

\* C39: a typed write whose kind is not the kind DB_CONFIG declares for
\* its tag raises without any transport operation and leaves the memory as
\* it was.
C39_KindRejected ==
    [][(/\ call.status = "idle" /\ call'.op = "typed_write"
        /\ call'.arg.w.type # DeclaredType(call'.arg.w.tag))
       => /\ call'.status = "raised"
          /\ call'.io = 0
          /\ db' = db]_vars

\* ---------------------------------------------------------------------------
\* Transactions that queue a tag more than once
\* ---------------------------------------------------------------------------

\* writes of known tags with values in range, each tag with two values
RepeatInputs ==
    {QueuedWrite("INT", <<"i_FRR">>, 1, 0),
     QueuedWrite("INT", <<"i_FRR">>, 2, 0),
     QueuedWrite("REAL", <<"r_TFR">>, Rat(1, 1), 0),
     QueuedWrite("REAL", <<"r_TFR">>, Rat(-5, 2), 0),
     QueuedWrite("BOOL", <<"COMMANDS_RUN", "b_START">>, TRUE, 0),
     QueuedWrite("BOOL", <<"COMMANDS_RUN", "b_START">>, FALSE, 0),
     QueuedWrite("STRING", <<"s_CUSTOM_ORG_SOLVENT">>, <<97, 98>>, 16),
     QueuedWrite("STRING", <<"s_CUSTOM_ORG_SOLVENT">>, <<>>, 16)}

NextRepeat ==
    \/ transaction
    \/ \E w \in RepeatInputs : TxWrite(w)
    \/ TxExit
    \/ Return

SpecRepeat == Init /\ [][NextRepeat]_vars

\* C35: the commit of a queue in which every write is one that succeeds
\* when made alone (known tag, value in range), every Real is a value that
\* single precision holds exactly and no two Bool tags share an address,
\* returns, also when a tag is queued more than once; every tag then reads
\* the value queued last for it.
C35_CommitSucceeds ==
    [][(/\ call.status = "idle" /\ call'.op = "commit" /\ ~tx.committed
        /\ \A i \in 1..Len(tx.writes) :
              /\ ExecWrite(db, tx.writes[i]).err = ""
              /\ Stored(tx.writes[i]) = tx.writes[i].value
              /\ \A j \in 1..Len(tx.writes) :
                    (tx.writes[i].type = "BOOL" /\ tx.writes[j].type = "BOOL"
                     /\ tx.writes[i].tag # tx.writes[j].tag)
                    => BoolCfg(tx.writes[i].tag).at # BoolCfg(tx.writes[j].tag).at)
       => /\ call'.status = "returned"
          /\ \A i \in 1..Len(tx.writes) :
                (\A j \in (i + 1)..Len(tx.writes) : tx.writes[j].tag # tx.writes[i].tag)
                => ReadQueued(db', tx.writes[i]).val = tx.writes[i].value]_vars

====
